---- MODULE Spec2Model ----
(***************************************************************************)
(* State-machine model of ambilight-player (src/ambilight-player/src/      *)
(* main.rs): the format loader, the control listener thread, the signal    *)
(* thread and the playback engine loop of main().                          *)
(*                                                                         *)
(* A second specification, PipeSpec, applies the pure functions of the      *)
(* frame pipeline (resampling index, rotation, colour stages) to inputs     *)
(* drawn from bounded sets.  FairSpec is Spec under the scheduling of the   *)
(* threads, for the properties that say something eventually happens.      *)
(*                                                                         *)
(* Time is kept in whole microseconds.  start_instant is represented by    *)
(* sinceAnchor, the value start_instant.elapsed() would return.            *)
(* Seconds given on the command line or in control lines are whole         *)
(* seconds; the conversion to microseconds is SecToUs.                     *)
(***************************************************************************)
EXTENDS Integers, Sequences, FiniteSets, TLC

VARIABLES
    file,           \* the input file (immutable)
    cfg,            \* command line and environment (immutable)
    pc,             \* position of the main thread
    pos,            \* read position of the BufReader
    fps, bytes_per_led, frame_size, total_src, total_tgt,
    frames, timestamps_us,
    socket,         \* "none" | "open"
    start_frame, frame_index,
    sinceAnchor,    \* start_instant.elapsed()
    elapsed_base, last_paused,
    processing_latency_ema, first_processing_measurement,
    ema_acc,        \* None, or the frame indices folded into the accumulator
    SENT_BLANK_ON_PAUSE,
    seek_target, paused_flag, beat_shared,      \* the three Mutex-guarded slots
    running, request_blank_on_exit,             \* the two AtomicBools
    lpc,            \* position of the control listener thread
    lockHeld,       \* the mutex the listener holds: "none" | "seek" | "pause" | "beat"
    pendingOp,      \* the parsed command the listener is about to store
    linesRead, curLine,
    signalled,      \* the signal thread has delivered SIGINT/SIGTERM
    sleep_duration, processing_duration, blanksLeft,
    lastSend,       \* the most recent socket.send: None or [kind, len, frame, ok]
    sendsThisTick,  \* history: socket.send calls since the tick began
    blanksThisPause,\* history: pause blanks since the engine last saw the pause begin
    seekAge, pauseAge, stopAge,  \* history: colour frames sent since the command was recorded
    stopWhileRunning, \* history: STOP was read while the engine was in its loop
    pipe            \* PipeSpec: the pure function under evaluation, its inputs and result

vars == <<file, cfg, pc, pos, fps, bytes_per_led, frame_size, total_src, total_tgt,
          frames, timestamps_us, socket, start_frame, frame_index, sinceAnchor,
          elapsed_base, last_paused, processing_latency_ema,
          first_processing_measurement, ema_acc, SENT_BLANK_ON_PAUSE,
          seek_target, paused_flag, beat_shared, running, request_blank_on_exit,
          lpc, lockHeld, pendingOp, linesRead, curLine, signalled,
          sleep_duration, processing_duration, blanksLeft, lastSend,
          sendsThisTick, blanksThisPause, seekAge, pauseAge, stopAge,
          stopWhileRunning, pipe>>

\* Option<T>: None is the empty tuple, Some(x) the one-element tuple.
None == << >>
Some(x) == <<x>>
Unwrap(o) == o[1]

Min(a, b) == IF a < b THEN a ELSE b
Max(a, b) == IF a > b THEN a ELSE b

(***************************************************************************)
(* Bounds of the model.                                                    *)
(***************************************************************************)
MaxLines == 3          \* control lines the listener reads in one run
MaxPauseTicks == 1     \* 80 ms idle sleeps counted into sinceAnchor while paused
MaxLeds == 3           \* PipeSpec: source zones of a frame (targets go up to twice as many)

(***************************************************************************)
(* Program constants.                                                      *)
(***************************************************************************)
UsPerSec == 1000000
HeaderMagicLen == 4
TimestampLen == 8
DefaultFps == 24
PauseSleepUs == 80000
ExitBlankCount == 3

(***************************************************************************)
(* The input file: a header, complete records, and the number of bytes     *)
(* actually present (len), so that every truncation point is a file.       *)
(* Layout: magic 4, fps f32 4, then for "AMb2" top/bottom/left/right u16   *)
(* and fmt u8; for the legacy magic one u16 count, u16 rotation, fmt u8.   *)
(***************************************************************************)
FileBpl(f) == IF f.fmt = 1 THEN 4 ELSE 3
FileZones(f) == f.top + f.bottom + f.left + f.right
FileFrameSize(f) == FileZones(f) * FileBpl(f)
Amb2HeaderLen == 17
LegacyHeaderLen == 13
FileHeaderLen(f) == IF f.magic = "AMb2" THEN Amb2HeaderLen ELSE LegacyHeaderLen
FileRecordLen(f) == TimestampLen + FileFrameSize(f)
FileFullLen(f) == FileHeaderLen(f) + Len(f.ts) * FileRecordLen(f)

\* Byte j (0-based) of the payload of record i (0-based) as written.
PayloadByte(i, j) == (64 * i + 16 * j + 5) % 256
FilePayload(f, i) == [j \in 1..FileFrameSize(f) |-> PayloadByte(i, j - 1)]

MkFile(magic, hfps, top, bottom, left, right, fmt, ts, cut) ==
    LET f == [magic |-> magic, fps |-> hfps, top |-> top, bottom |-> bottom,
              left |-> left, right |-> right, fmt |-> fmt, ts |-> ts, len |-> 0]
    IN [f EXCEPT !.len = FileFullLen(f) - cut]

Ts3 == <<0, 1000000, 1200000>>
Ts2 == <<0, 1000000>>

\* A well-formed three-frame file.
GoodFile == MkFile("AMb2", 24, 1, 0, 0, 1, 0, Ts3, 0)

\* A two-record file cut short by c bytes: inside the last payload (1),
\* inside its timestamp (7), on the record boundary (14), inside the first
\* record (15, 21), after the header (28) and inside the header (29 and more).
CutFiles == { MkFile("AMb2", 24, 1, 0, 0, 1, 0, Ts2, c) :
                c \in {1, 7, 14, 15, 21, 28, 29, 37, 38, 41, 42, 45} }

\* RGBW with no usable header rate; no source zones at all; the legacy
\* magic with a well-formed legacy header; an unknown magic.
RgbwFile == MkFile("AMb2", 0, 1, 1, 0, 0, 1, Ts2, 0)
ZeroZoneFile == MkFile("AMb2", 24, 0, 0, 0, 0, 0, <<0>>, 0)
LegacyFile == MkFile("AMBI", 24, 2, 0, 0, 0, 0, Ts2, 0)
JunkFile == MkFile("JUNK", 24, 1, 0, 0, 1, 0, <<0>>, 0)

Files == {GoodFile, RgbwFile, ZeroZoneFile, LegacyFile, JunkFile} \cup CutFiles

\* Command line and environment: --start, --ref-epoch when given and the
\* wall clock at launch (whole seconds), AMBILIGHT_SYNC_LEAD_SECONDS (whole
\* seconds), tgt: the four AMBILIGHT_*_LED_COUNT values (top, bottom, left,
\* right) when set, and AMBILIGHT_INPUT_POSITION.
DefaultConfig == [start |-> 0, ref_epoch |-> None, now_epoch |-> 10, sync_lead |-> 0,
                  tgt |-> <<None, None, None, None>>, input_position |-> 0]
LeadConfig == [start |-> 0, ref_epoch |-> None, now_epoch |-> 10, sync_lead |-> 1,
               tgt |-> <<None, None, None, None>>, input_position |-> 1]
\* Launched 3 s after the reference epoch with --start 2: past the last frame.
PastEndConfig == [start |-> 2, ref_epoch |-> Some(7), now_epoch |-> 10, sync_lead |-> 0,
                  tgt |-> <<None, None, None, None>>, input_position |-> 0]
\* A reference epoch 2 s in the future, with --start 1.
EarlyRefConfig == [start |-> 1, ref_epoch |-> Some(12), now_epoch |-> 10, sync_lead |-> 0,
                   tgt |-> <<None, None, None, None>>, input_position |-> 0]

\* The runs explored: the RGBW file with a sync lead and with a reference
\* epoch, the three-frame file started past its end, every file but the
\* RGBW one with the defaults.
Scenarios ==
    { <<f, DefaultConfig>> : f \in Files \ {RgbwFile} }
        \cup { <<RgbwFile, LeadConfig>>, <<RgbwFile, EarlyRefConfig>>, <<GoodFile, PastEndConfig>> }

\* Faulty variant: a reference epoch in the future moves the start back.
LaunchDeltaSigned(ref_epoch, now_epoch) ==
    IF ref_epoch # None THEN now_epoch - Unwrap(ref_epoch) ELSE 0

\* Lines 195-198: the time since the reference epoch, never negative.
LaunchDelta(ref_epoch, now_epoch) ==
    IF ref_epoch # None THEN Max(now_epoch - Unwrap(ref_epoch), 0) ELSE 0

\* f64 seconds -> u64 microseconds: "(x * 1_000_000.0) as u64" saturates at 0.
SecToUs(s) == IF s * UsPerSec < 0 THEN 0 ELSE s * UsPerSec

\* Faulty variant: a timestamp equal to the target is passed over.
RECURSIVE FirstAfter(_, _, _)
FirstAfter(tss, target, i) ==
    IF i < Len(tss) /\ tss[i + 1] <= target
    THEN FirstAfter(tss, target, i + 1)
    ELSE i

\* The first index whose timestamp is >= target (lines 203, 276).
RECURSIVE FirstAtOrAfter(_, _, _)
FirstAtOrAfter(tss, target, i) ==
    IF i < Len(tss) /\ tss[i + 1] < target
    THEN FirstAtOrAfter(tss, target, i + 1)
    ELSE i

(***************************************************************************)
(* BufReader::read_exact(n) at position p of a file of len bytes.          *)
(***************************************************************************)
ReadOk(p, n, len) == p + n <= len
ReadPos(p, n, len) == IF ReadOk(p, n, len) THEN p + n ELSE len

\* Faulty variant: any four bytes are taken for a known magic.
MagicRecognizedAny(m) == TRUE

MagicRecognized(m) == m = "AMb2"

\* Header fps: kept when finite, > 0.001 and <= 300, otherwise 0.
HeaderFps(ok, v) == IF ok /\ v > 0 /\ v <= 300 THEN [n |-> v, d |-> 1] ELSE [n |-> 0, d |-> 1]

\* The rate derived at lines 181-185 when the header gave none.
DerivedFps(hfps, tss) ==
    IF hfps.n > 0 THEN hfps
    ELSE IF Len(tss) >= 2
         THEN LET d == tss[2] - tss[1]
                  dt_us == IF d < 0 THEN -d ELSE d
              IN IF dt_us > 0 THEN [n |-> UsPerSec, d |-> dt_us]
                 ELSE [n |-> DefaultFps, d |-> 1]
         ELSE [n |-> DefaultFps, d |-> 1]

\* "(k as f64 / fps * 1_000_000.0) as u64"
FramesToUs(k, r) == (k * UsPerSec * r.d) \div r.n

\* Target count of one edge: the environment's count, or max(src, 1).
TargetCount(override, src) == IF override = None THEN Max(src, 1) ELSE Unwrap(override)

(***************************************************************************)
(* One iteration of the frame loading loop (lines 164-176): the new        *)
(* timestamps, frames and read position, and whether the loop goes on.     *)
(***************************************************************************)
\* Faulty variant: the timestamp is pushed as soon as it is read.
LoadStepKeepsTimestamp(f, p, fsz, tss, frs) ==
    LET k == Len(frs)
        tsOk == ReadOk(p, TimestampLen, f.len)
        p1 == ReadPos(p, TimestampLen, f.len)
        payOk == ReadOk(p1, fsz, f.len)
    IN IF ~tsOk THEN [ts |-> tss, frames |-> frs, pos |-> p1, more |-> FALSE]
       ELSE IF ~payOk
            THEN [ts |-> Append(tss, f.ts[k + 1]), frames |-> frs, pos |-> f.len, more |-> FALSE]
            ELSE [ts |-> Append(tss, f.ts[k + 1]), frames |-> Append(frs, FilePayload(f, k)),
                  pos |-> p1 + fsz, more |-> TRUE]

LoadStep(f, p, fsz, tss, frs) ==
    LET k == Len(frs)
        tsOk == ReadOk(p, TimestampLen, f.len)
        p1 == ReadPos(p, TimestampLen, f.len)
        payOk == ReadOk(p1, fsz, f.len)
    IN IF ~tsOk THEN [ts |-> tss, frames |-> frs, pos |-> p1, more |-> FALSE]
       ELSE IF ~payOk
            THEN [ts |-> tss, frames |-> frs, pos |-> f.len, more |-> FALSE]
            ELSE [ts |-> Append(tss, f.ts[k + 1]), frames |-> Append(frs, FilePayload(f, k)),
                  pos |-> p1 + fsz, more |-> TRUE]

(***************************************************************************)
(* Control lines: a line is the sequence of its whitespace-separated       *)
(* tokens.                                                                 *)
(***************************************************************************)
NumTokens == {"-1", "1", "5"}
NumVal(t) == CASE t = "-1" -> -1 [] t = "1" -> 1 [] t = "5" -> 5

\* str::parse::<f64>
ParseF64(t) == IF t \in NumTokens THEN Some(NumVal(t)) ELSE None

\* eq_ignore_ascii_case against an upper-case keyword
Upper(t) == CASE t = "seek" -> "SEEK" [] t = "pause" -> "PAUSE" [] t = "resume" -> "RESUME"
              [] t = "stop" -> "STOP" [] t = "beat" -> "BEAT" [] OTHER -> t
EqIgnoreCase(t, kw) == Upper(t) = kw

Lines == { <<"SEEK", "1">>, <<"seek", "5">>, <<"SEEK", "-1">>,
           <<"PAUSE">>, <<"RESUME">>, <<"STOP">>,
           <<"BEAT", "1", "5">>, <<"BEAT", "1", "x">>,
           << >>, <<"SEEK", "x">>, <<"PAUSE", "1">>, <<"FOO">>, <<"BEAT", "x">> }

\* Faulty variant: a heartbeat is taken for a seek to its position.
ParseBeatSeeks(parts) ==
    IF Len(parts) = 0 THEN [kind |-> "ignore"]
    ELSE IF Len(parts) = 2 /\ EqIgnoreCase(parts[1], "SEEK")
    THEN IF ParseF64(parts[2]) # None
         THEN [kind |-> "seek", s |-> Unwrap(ParseF64(parts[2]))]
         ELSE [kind |-> "ignore"]
    ELSE IF Len(parts) = 1 /\ EqIgnoreCase(parts[1], "PAUSE") THEN [kind |-> "pause"]
    ELSE IF Len(parts) = 1 /\ EqIgnoreCase(parts[1], "RESUME") THEN [kind |-> "resume"]
    ELSE IF (Len(parts) = 3 \/ Len(parts) = 2) /\ EqIgnoreCase(parts[1], "BEAT")
    THEN IF ParseF64(parts[2]) # None
         THEN [kind |-> "seek", s |-> Unwrap(ParseF64(parts[2]))]
         ELSE [kind |-> "ignore"]
    ELSE IF Len(parts) = 1 /\ EqIgnoreCase(parts[1], "STOP") THEN [kind |-> "stop"]
    ELSE [kind |-> "ignore"]

\* The dispatch of lines 240-262: what the listener will do with a line.
Parse(parts) ==
    IF Len(parts) = 0 THEN [kind |-> "ignore"]
    ELSE IF Len(parts) = 2 /\ EqIgnoreCase(parts[1], "SEEK")
    THEN IF ParseF64(parts[2]) # None
         THEN [kind |-> "seek", s |-> Unwrap(ParseF64(parts[2]))]
         ELSE [kind |-> "ignore"]
    ELSE IF Len(parts) = 1 /\ EqIgnoreCase(parts[1], "PAUSE") THEN [kind |-> "pause"]
    ELSE IF Len(parts) = 1 /\ EqIgnoreCase(parts[1], "RESUME") THEN [kind |-> "resume"]
    ELSE IF (Len(parts) = 3 \/ Len(parts) = 2) /\ EqIgnoreCase(parts[1], "BEAT")
    THEN IF ParseF64(parts[2]) # None
         THEN [kind |-> "beat", pos |-> Unwrap(ParseF64(parts[2])),
               epoch |-> IF Len(parts) >= 3 THEN ParseF64(parts[3]) ELSE None]
         ELSE [kind |-> "ignore"]
    ELSE IF Len(parts) = 1 /\ EqIgnoreCase(parts[1], "STOP") THEN [kind |-> "stop"]
    ELSE [kind |-> "ignore"]

LockOf(op) == CASE op.kind = "seek" -> "seek"
                [] op.kind \in {"pause", "resume"} -> "pause"
                [] op.kind = "beat" -> "beat"

(***************************************************************************)
(* Positions of the main thread.                                           *)
(***************************************************************************)
LoopPcs == {"loop", "seek", "pause", "paused", "pace", "sleeping", "process",
            "send", "latency", "beat_check", "beat_clear"}
ExitedPcs == {"done", "failed", "panicked"}
ProcessAlive == pc \notin ExitedPcs

ProcDurations == {400000}    \* resample + pipeline + send time of one tick
SleepJitter == {0}              \* oversleep of thread::sleep

\* The state of main() at entry, whatever the file and the configuration.
EngineInit ==
    /\ pc = "start"
    /\ pos = 0
    /\ fps = [n |-> 0, d |-> 1]
    /\ bytes_per_led = 0 /\ frame_size = 0 /\ total_src = 0 /\ total_tgt = 0
    /\ frames = << >> /\ timestamps_us = << >>
    /\ socket = "none"
    /\ start_frame = 0 /\ frame_index = 0
    /\ sinceAnchor = 0 /\ elapsed_base = 0 /\ last_paused = FALSE
    /\ processing_latency_ema = 0 /\ first_processing_measurement = TRUE
    /\ ema_acc = None
    /\ SENT_BLANK_ON_PAUSE = FALSE
    /\ seek_target = None /\ paused_flag = FALSE /\ beat_shared = None
    /\ running = TRUE /\ request_blank_on_exit = FALSE
    /\ lpc = "unborn" /\ lockHeld = "none" /\ pendingOp = None
    /\ linesRead = 0 /\ curLine = None
    /\ signalled = FALSE
    /\ sleep_duration = 0 /\ processing_duration = 0 /\ blanksLeft = 0
    /\ lastSend = None
    /\ sendsThisTick = 0 /\ blanksThisPause = 0
    /\ seekAge = 0 /\ pauseAge = 0 /\ stopAge = 0
    /\ stopWhileRunning = FALSE

Init ==
    /\ \E sc \in Scenarios : file = sc[1] /\ cfg = sc[2]
    /\ EngineInit
    /\ pipe = None

immutableVars == <<file, cfg>>
loadVars == <<pos, fps, bytes_per_led, frame_size, total_src, total_tgt, frames,
              timestamps_us, socket>>
timeVars == <<sinceAnchor, elapsed_base, processing_latency_ema,
              first_processing_measurement>>
sharedVars == <<seek_target, paused_flag, beat_shared, running, request_blank_on_exit>>
listenerVars == <<lpc, lockHeld, pendingOp, linesRead, curLine>>
localVars == <<sleep_duration, processing_duration, blanksLeft>>
ageVars == <<seekAge, pauseAge, stopAge>>

(***************************************************************************)
(* Signal thread (lines 79-89): the first SIGINT/SIGTERM clears running.   *)
(***************************************************************************)
Signal ==
    /\ ProcessAlive
    /\ ~signalled
    /\ signalled' = TRUE
    /\ running' = FALSE
    /\ stopAge' = IF running THEN 0 ELSE stopAge
    /\ UNCHANGED <<pipe, immutableVars, pc, loadVars, start_frame, frame_index, timeVars,
                   last_paused, ema_acc, SENT_BLANK_ON_PAUSE, seek_target, paused_flag,
                   beat_shared, request_blank_on_exit, listenerVars, localVars,
                   lastSend, sendsThisTick, blanksThisPause, seekAge, pauseAge,
                   stopWhileRunning>>

(***************************************************************************)
(* Format loader.                                                          *)
(***************************************************************************)
\* Lines 117-155: magic, header fields, source and target counts.
ReadHeader ==
    /\ pc = "start"
    /\ LET len == file.len
           magicOk == ReadOk(0, HeaderMagicLen, len)
           p1 == ReadPos(0, HeaderMagicLen, len)
           fpsOk == ReadOk(p1, 4, len)
           p2 == ReadPos(p1, 4, len)
           topOk == ReadOk(p2, 2, len)
           p3 == ReadPos(p2, 2, len)
           bottomOk == ReadOk(p3, 2, len)
           p4 == ReadPos(p3, 2, len)
           leftOk == ReadOk(p4, 2, len)
           p5 == ReadPos(p4, 2, len)
           rightOk == ReadOk(p5, 2, len)
           p6 == ReadPos(p5, 2, len)
           fmtOk == ReadOk(p6, 1, len)
           p7 == ReadPos(p6, 1, len)
           bpl == IF file.fmt = 1 THEN 4 ELSE 3
           sum == file.top + file.right + file.bottom + file.left
           fsz == sum * bpl
       IN IF ~magicOk
          THEN /\ pc' = "panicked"
               /\ pos' = p1
               /\ UNCHANGED <<fps, bytes_per_led, frame_size, total_src, total_tgt>>
          ELSE IF ~MagicRecognized(file.magic)
          THEN /\ pc' = "failed"
               /\ pos' = p1
               /\ UNCHANGED <<fps, bytes_per_led, frame_size, total_src, total_tgt>>
          ELSE IF ~(topOk /\ bottomOk /\ leftOk /\ rightOk /\ fmtOk)
          THEN /\ pc' = "panicked"
               /\ pos' = len
               /\ UNCHANGED <<fps, bytes_per_led, frame_size, total_src, total_tgt>>
          ELSE /\ pc' = "load"
               /\ pos' = p7
               /\ fps' = HeaderFps(fpsOk, file.fps)
               /\ bytes_per_led' = bpl
               /\ frame_size' = fsz
               /\ total_src' = IF sum > 0 THEN sum ELSE fsz \div bpl
               /\ total_tgt' = TargetCount(cfg.tgt[1], file.top) + TargetCount(cfg.tgt[4], file.right)
                               + TargetCount(cfg.tgt[2], file.bottom) + TargetCount(cfg.tgt[3], file.left)
    /\ UNCHANGED <<pipe, immutableVars, frames, timestamps_us, socket, start_frame, frame_index,
                   timeVars, last_paused, ema_acc, SENT_BLANK_ON_PAUSE, sharedVars,
                   listenerVars, signalled, localVars, lastSend, sendsThisTick,
                   blanksThisPause, ageVars, stopWhileRunning>>

\* Lines 164-176: one pass of the record loop.
ReadRecord ==
    /\ pc = "load"
    /\ LET r == LoadStep(file, pos, frame_size, timestamps_us, frames)
       IN /\ timestamps_us' = r.ts
          /\ frames' = r.frames
          /\ pos' = r.pos
          /\ pc' = IF r.more THEN "load" ELSE "loaded"
    /\ UNCHANGED <<pipe, immutableVars, fps, bytes_per_led, frame_size, total_src, total_tgt,
                   socket, start_frame, frame_index, timeVars, last_paused, ema_acc,
                   SENT_BLANK_ON_PAUSE, sharedVars, listenerVars, signalled, localVars,
                   lastSend, sendsThisTick, blanksThisPause, ageVars, stopWhileRunning>>

\* Lines 178-267: empty check, fps fallback, socket, start frame, listener spawn.
\* sockOk: UdpSocket::bind / connect succeed (they panic through expect otherwise).
FinishLoad ==
    /\ pc = "loaded"
    /\ IF Len(frames) = 0
       THEN /\ pc' = "done"
            /\ UNCHANGED <<fps, socket, start_frame, frame_index, lpc>>
       ELSE \E sockOk \in BOOLEAN :
            IF ~sockOk
            THEN /\ pc' = "panicked"
                 /\ fps' = DerivedFps(fps, timestamps_us)
                 /\ UNCHANGED <<socket, start_frame, frame_index, lpc>>
            ELSE LET effective_start == Max(cfg.start + LaunchDelta(cfg.ref_epoch, cfg.now_epoch)
                                            + cfg.sync_lead, 0)
                     start_ts_us == SecToUs(effective_start)
                     sf == FirstAtOrAfter(timestamps_us, start_ts_us, 0)
                 IN /\ fps' = DerivedFps(fps, timestamps_us)
                    /\ socket' = "open"
                    /\ start_frame' = sf
                    /\ frame_index' = Min(sf, Len(frames))
                    /\ lpc' = "top"
                    /\ pc' = "loop"
    /\ UNCHANGED <<pipe, immutableVars, pos, bytes_per_led, frame_size, total_src, total_tgt,
                   frames, timestamps_us, timeVars, last_paused, ema_acc,
                   SENT_BLANK_ON_PAUSE, sharedVars, lockHeld, pendingOp, linesRead,
                   curLine, signalled, localVars, lastSend, sendsThisTick,
                   blanksThisPause, ageVars, stopWhileRunning>>

(***************************************************************************)
(* Control listener thread (lines 232-264).                                *)
(***************************************************************************)
\* Line 237: the running check at the top of the loop.
ListenerTop ==
    /\ ProcessAlive
    /\ lpc = "top"
    /\ lpc' = IF running THEN "reading" ELSE "exited"
    /\ curLine' = None
    /\ UNCHANGED <<pipe, immutableVars, pc, loadVars, start_frame, frame_index, timeVars,
                   last_paused, ema_acc, SENT_BLANK_ON_PAUSE, sharedVars, lockHeld,
                   pendingOp, linesRead, signalled, localVars, lastSend, sendsThisTick,
                   blanksThisPause, ageVars, stopWhileRunning>>

\* Lines 238-262: read_line returns a line, the line is split and dispatched.
\* A command with a mutex-guarded slot takes the mutex here and stores in
\* ListenerStore; STOP stores the two atomics and leaves the loop.
ListenerReadLine ==
    /\ ProcessAlive
    /\ lpc = "reading"
    /\ linesRead < MaxLines
    /\ \E line \in Lines :
         LET op == Parse(line)
         IN /\ curLine' = Some(line)
            /\ linesRead' = linesRead + 1
            /\ IF op.kind = "ignore"
               THEN /\ lpc' = "top"
                    /\ UNCHANGED <<lockHeld, pendingOp, running, request_blank_on_exit,
                                   stopAge, stopWhileRunning>>
               ELSE IF op.kind = "stop"
               THEN /\ request_blank_on_exit' = TRUE
                    /\ running' = FALSE
                    /\ lpc' = "exited"
                    /\ stopAge' = IF running THEN 0 ELSE stopAge
                    /\ stopWhileRunning' = (stopWhileRunning \/ pc \in LoopPcs)
                    /\ UNCHANGED <<lockHeld, pendingOp>>
               ELSE /\ lpc' = "store"
                    /\ lockHeld' = LockOf(op)
                    /\ pendingOp' = Some(op)
                    /\ UNCHANGED <<running, request_blank_on_exit, stopAge, stopWhileRunning>>
    /\ UNCHANGED <<pipe, immutableVars, pc, loadVars, start_frame, frame_index, timeVars,
                   last_paused, ema_acc, SENT_BLANK_ON_PAUSE, seek_target, paused_flag,
                   beat_shared, signalled, localVars, lastSend, sendsThisTick,
                   blanksThisPause, seekAge, pauseAge>>

\* Faulty variant: the guard is not dropped after the store.
ReleasedLockLeak(l) == l

\* The MutexGuard is dropped at the end of the "if let" statement.
ReleasedLock(l) == "none"

\* Faulty variant: a seek that finds a target pending is dropped.
StoredTargetKeepsPending(pending, s) == IF pending # None THEN pending ELSE Some(s)

\* Line 245: *t = Some(s), whatever the slot held.
StoredTarget(pending, s) == Some(s)

\* Lines 245, 248, 250, 255: the assignment under the mutex, then the release.
ListenerStore ==
    /\ ProcessAlive
    /\ lpc = "store"
    /\ LET op == Unwrap(pendingOp)
       IN /\ seek_target' = IF op.kind = "seek" THEN StoredTarget(seek_target, op.s)
                            ELSE seek_target
          /\ paused_flag' = IF op.kind = "pause" THEN TRUE
                            ELSE IF op.kind = "resume" THEN FALSE ELSE paused_flag
          /\ beat_shared' = IF op.kind = "beat"
                            THEN Some([pos |-> op.pos, epoch |-> op.epoch])
                            ELSE beat_shared
          /\ seekAge' = IF op.kind = "seek" /\ seek_target = None THEN 0 ELSE seekAge
          /\ pauseAge' = IF (op.kind = "pause" /\ ~paused_flag) \/ op.kind = "resume"
                         THEN 0 ELSE pauseAge
    /\ lockHeld' = ReleasedLock(lockHeld)
    /\ pendingOp' = None
    /\ lpc' = "top"
    /\ UNCHANGED <<pipe, immutableVars, pc, loadVars, start_frame, frame_index, timeVars,
                   last_paused, ema_acc, SENT_BLANK_ON_PAUSE, running,
                   request_blank_on_exit, linesRead, curLine, signalled, localVars,
                   lastSend, sendsThisTick, blanksThisPause, stopAge, stopWhileRunning>>

(***************************************************************************)
(* Playback engine: the while loop of lines 270-553 and the exit blanks.   *)
(***************************************************************************)
\* Faulty variant: the loop looks at the frame index only.
LoopCondIgnoresRunning(run, fi, n) == fi < n

\* Line 270.
LoopCond(run, fi, n) == run /\ fi < n

EngineLoopCheck ==
    /\ pc = "loop"
    /\ pc' = IF LoopCond(running, frame_index, Len(frames)) THEN "seek" ELSE "exit"
    /\ sendsThisTick' = 0
    /\ UNCHANGED <<pipe, immutableVars, loadVars, start_frame, frame_index, timeVars,
                   last_paused, ema_acc, SENT_BLANK_ON_PAUSE, sharedVars, listenerVars,
                   signalled, localVars, lastSend, blanksThisPause, ageVars,
                   stopWhileRunning>>

\* Lines 274-277: the frame a seek to sec lands on.
SeekFrame(tss, sec, lead, n) == Min(FirstAtOrAfter(tss, SecToUs(sec + lead), 0), n)

\* Faulty variant: the search starts at the current frame and the elapsed
\* time is kept.
SeekStateFromCurrent(cur, tss, sec, lead, n) ==
    LET tf == Min(FirstAtOrAfter(tss, SecToUs(sec + lead), cur.frame_index), n)
    IN [frame_index |-> tf, start_frame |-> Min(tf, n),
        sinceAnchor |-> 0, elapsed_base |-> cur.elapsed_base]

\* Lines 274-280: the position and the clock after a seek to sec, from the
\* position and the clock before it (cur).
SeekState(cur, tss, sec, lead, n) ==
    LET tf == SeekFrame(tss, sec, lead, n)
    IN [frame_index |-> tf, start_frame |-> Min(tf, n),
        sinceAnchor |-> 0, elapsed_base |-> 0]

\* Faulty variant: a target is left pending while the engine is paused.
SeekDueWhenPlaying(tgt, paused) == tgt # None /\ ~paused

\* Line 273: a pending target is taken at every poll; the poll comes before
\* the pause check, so the pause state (paused) plays no part.
SeekDue(tgt, paused) == tgt # None

\* Lines 272-284: seek_target.lock() waits for the mutex; read and clear under it.
EngineSeek ==
    /\ pc = "seek"
    /\ lockHeld # "seek"
    /\ IF SeekDue(seek_target, last_paused)
       THEN LET st == SeekState([frame_index |-> frame_index, start_frame |-> start_frame,
                                 sinceAnchor |-> sinceAnchor, elapsed_base |-> elapsed_base],
                                timestamps_us, Unwrap(seek_target), cfg.sync_lead, Len(frames))
            IN /\ frame_index' = st.frame_index
               /\ start_frame' = st.start_frame
               /\ sinceAnchor' = st.sinceAnchor
               /\ elapsed_base' = st.elapsed_base
               /\ seek_target' = None
               /\ seekAge' = 0
       ELSE UNCHANGED <<frame_index, start_frame, sinceAnchor, elapsed_base, seek_target,
                        seekAge>>
    /\ pc' = "pause"
    /\ UNCHANGED <<pipe, immutableVars, loadVars, processing_latency_ema,
                   first_processing_measurement, last_paused, ema_acc,
                   SENT_BLANK_ON_PAUSE, paused_flag, beat_shared, running,
                   request_blank_on_exit, listenerVars, signalled, localVars, lastSend,
                   sendsThisTick, blanksThisPause, pauseAge, stopAge, stopWhileRunning>>

\* Faulty variant: the paused branch is never taken.
PausedBranchPlaysOn(paused_now) == "pace"

\* Line 298: a paused tick goes to the blank and the idle sleep, any other
\* tick to the pacing.
PausedBranch(paused_now) == IF paused_now THEN "paused" ELSE "pace"

\* Faulty variant: the anchor is not reset when playback resumes.
PauseEdgeClockKeepsAnchor(paused_now, last, base, since) ==
    [elapsed_base |-> IF paused_now /\ ~last THEN base + since ELSE base,
     sinceAnchor |-> since]

\* Lines 288-295: the clock after the pause and resume edges; base is
\* elapsed_base and since is start_instant.elapsed().
PauseEdgeClock(paused_now, last, base, since) ==
    [elapsed_base |-> IF paused_now /\ ~last THEN base + since ELSE base,
     sinceAnchor |-> IF ~paused_now /\ last THEN 0 ELSE since]

\* Lines 286-296: paused_flag.lock() waits for the mutex; pause and resume edges.
EnginePausePoll ==
    /\ pc = "pause"
    /\ lockHeld # "pause"
    /\ LET paused_now == paused_flag
           clock == PauseEdgeClock(paused_now, last_paused, elapsed_base, sinceAnchor)
       IN /\ elapsed_base' = clock.elapsed_base
          /\ sinceAnchor' = clock.sinceAnchor
          /\ last_paused' = paused_now
          /\ blanksThisPause' = IF paused_now /\ ~last_paused THEN 0 ELSE blanksThisPause
          /\ pauseAge' = IF paused_now THEN 0 ELSE pauseAge
          /\ pc' = PausedBranch(paused_now)
    /\ UNCHANGED <<pipe, immutableVars, loadVars, start_frame, frame_index,
                   processing_latency_ema, first_processing_measurement, ema_acc,
                   SENT_BLANK_ON_PAUSE, sharedVars, listenerVars, signalled, localVars,
                   lastSend, sendsThisTick, seekAge, stopAge, stopWhileRunning>>

\* Lines 302 and 557: zeroes = vec![0u8; total_tgt * bytes_per_led].
Zeroes(tgt, bpl) == [j \in 1..(tgt * bpl) |-> 0]

\* Lines 298-311: the blank guarded by the static latch, the 80 ms sleep, continue.
\* The sleep is counted into sinceAnchor MaxPauseTicks times per pause.
EnginePausedTick ==
    /\ pc = "paused"
    /\ IF ~SENT_BLANK_ON_PAUSE
       THEN \E ok \in BOOLEAN :
            /\ lastSend' = Some([kind |-> "pause_blank",
                                 len |-> Len(Zeroes(total_tgt, bytes_per_led)),
                                 frame |-> frame_index, ok |-> ok])
            /\ SENT_BLANK_ON_PAUSE' = TRUE
            /\ sendsThisTick' = sendsThisTick + 1
            /\ blanksThisPause' = blanksThisPause + 1
       ELSE UNCHANGED <<lastSend, SENT_BLANK_ON_PAUSE, sendsThisTick, blanksThisPause>>
    /\ sinceAnchor' = IF sinceAnchor + PauseSleepUs <= elapsed_base + MaxPauseTicks * PauseSleepUs
                      THEN sinceAnchor + PauseSleepUs ELSE sinceAnchor
    /\ pc' = "loop"
    /\ UNCHANGED <<pipe, immutableVars, loadVars, start_frame, frame_index, elapsed_base,
                   processing_latency_ema, first_processing_measurement, last_paused,
                   ema_acc, sharedVars, listenerVars, signalled, localVars, ageVars,
                   stopWhileRunning>>

\* Lines 317-330: the frame's target time relative to the start frame.
FrameTargetTimeUs(tss, fi, sf, r) ==
    LET frame_timestamp_us == IF fi < Len(tss) THEN tss[fi + 1] ELSE FramesToUs(fi, r)
    IN IF sf < Len(tss)
       THEN Max(frame_timestamp_us - tss[sf + 1], 0)
       ELSE FramesToUs(fi - sf, r)

\* Faulty variant: the compensation is taken off twice.
SleepDurationTwiceCompensated(target, elapsed, comp) ==
    LET d == target - elapsed
    IN IF d > comp THEN Max(d - 2 * comp, 0) ELSE d

\* Lines 336-343: the duration handed to sleep.
SleepDuration(target, elapsed, comp) ==
    LET d == target - elapsed
    IN IF d > comp THEN d - comp ELSE d

\* Lines 316-344: sleep when the frame is not yet due.
EnginePace ==
    /\ pc = "pace"
    /\ LET frame_target_time == FrameTargetTimeUs(timestamps_us, frame_index, start_frame, fps)
           elapsed_since_start == elapsed_base + sinceAnchor
       IN IF elapsed_since_start < frame_target_time
          THEN /\ sleep_duration' = SleepDuration(frame_target_time, elapsed_since_start,
                                                  processing_latency_ema)
               /\ pc' = "sleeping"
          ELSE /\ sleep_duration' = 0
               /\ pc' = "process"
    /\ UNCHANGED <<pipe, immutableVars, loadVars, start_frame, frame_index, timeVars,
                   last_paused, ema_acc, SENT_BLANK_ON_PAUSE, sharedVars, listenerVars,
                   signalled, processing_duration, blanksLeft, lastSend, sendsThisTick,
                   blanksThisPause, ageVars, stopWhileRunning>>

\* Line 343: the sleep returns.
EngineWake ==
    /\ pc = "sleeping"
    /\ \E j \in SleepJitter : sinceAnchor' = sinceAnchor + sleep_duration + j
    /\ pc' = "process"
    /\ UNCHANGED <<pipe, immutableVars, loadVars, start_frame, frame_index, elapsed_base,
                   processing_latency_ema, first_processing_measurement, last_paused,
                   ema_acc, SENT_BLANK_ON_PAUSE, sharedVars, listenerVars, signalled,
                   localVars, lastSend, sendsThisTick, blanksThisPause, ageVars,
                   stopWhileRunning>>

\* Faulty variant: the nearest source index instead of the floor.
SrcIdxNearest(t, S, T) == IF T > 0 THEN (2 * t * S + T) \div (2 * T) ELSE 0

\* Lines 386 and 410: the source index target t reads from.
SrcIdx(t, S, T) == IF T > 0 THEN (t * S) \div T ELSE 0

\* Lines 386-389 and 410-415, 476-477: every read of raw lies inside it.
ResampleInBounds(rawLen, S, T, bpl) ==
    \A t \in 0..(T - 1) : SrcIdx(t, S, T) * bpl + bpl <= rawLen

\* Lines 381-393 and 445-447: the frames folded into the accumulator.
NextAcc(acc, fi) ==
    IF acc = None THEN Some([init |-> fi, blended |-> <<fi>>])
    ELSE Some([init |-> Unwrap(acc).init, blended |-> Append(Unwrap(acc).blended, fi)])

\* Lines 347-481: frames[frame_index], the resampling reads, the accumulator.
EngineProcess ==
    /\ pc = "process"
    /\ IF frame_index >= Len(frames)
       THEN /\ pc' = "panicked"
            /\ UNCHANGED ema_acc
       ELSE IF ~ResampleInBounds(Len(frames[frame_index + 1]), total_src, total_tgt,
                                 bytes_per_led)
       THEN /\ pc' = "panicked"
            /\ UNCHANGED ema_acc
       ELSE /\ ema_acc' = NextAcc(ema_acc, frame_index)
            /\ pc' = "send"
    /\ UNCHANGED <<pipe, immutableVars, loadVars, start_frame, frame_index, timeVars,
                   last_paused, SENT_BLANK_ON_PAUSE, sharedVars, listenerVars, signalled,
                   localVars, lastSend, sendsThisTick, blanksThisPause, ageVars,
                   stopWhileRunning>>

\* Faulty variant: the source LED is one further than asked.
RotateOffByOne(frame, rotation_leds, total_leds, bpl) ==
    IF rotation_leds = 0 \/ total_leds = 0 THEN frame
    ELSE [j \in 1..Len(frame) |->
            LET i == (j - 1) \div bpl
                b == (j - 1) % bpl
                src_led == (i + rotation_leds + 1) % total_leds
            IN IF i < total_leds THEN frame[src_led * bpl + b + 1] ELSE 0]

\* Lines 34-53: LED i of the result is LED (i + rotation_leds) % total_leds
\* of the frame; bytes past total_leds LEDs stay zero.
rotate_led_frame(frame, rotation_leds, total_leds, bpl) ==
    IF rotation_leds = 0 \/ total_leds = 0 THEN frame
    ELSE [j \in 1..Len(frame) |->
            LET i == (j - 1) \div bpl
                b == (j - 1) % bpl
                src_led == (i + rotation_leds) % total_leds
            IN IF i < total_leds THEN frame[src_led * bpl + b + 1] ELSE 0]

\* Faulty variant: the strip is turned the other way.
SentFrameTurnedBack(out_frame, input_position, T, bpl) ==
    LET rot_leds == IF T > 0 THEN input_position % T ELSE 0
    IN IF rot_leds > 0 THEN rotate_led_frame(out_frame, T - rot_leds, T, bpl) ELSE out_frame

\* Lines 352 and 484-511: the bytes handed to socket.send.
SentFrame(out_frame, input_position, T, bpl) ==
    LET rot_leds == IF T > 0 THEN input_position % T ELSE 0
    IN IF rot_leds > 0 THEN rotate_led_frame(out_frame, rot_leds, T, bpl) ELSE out_frame

\* Faulty variant: the output buffer is sized by the source zones.
OutFrameLenOfSource(tgt, src, bpl) == src * bpl

\* Line 396: out_frame = vec![0u8; total_tgt * bytes_per_led].
OutFrameLen(tgt, src, bpl) == tgt * bpl

\* Faulty variant: a failed send is tried again.
AfterSendRetry(ok) == IF ok THEN "latency" ELSE "send"

\* Lines 489-531: both arms of the match on the send result only log.
AfterSend(ok) == "latency"

Bump(age) == Min(age + 1, 2)

\* Lines 483-531: socket.send of the (rotated) frame.
EngineSend ==
    /\ pc = "send"
    /\ \E ok \in BOOLEAN :
         /\ lastSend' = Some([kind |-> "color",
                              len |-> Len(SentFrame([j \in 1..OutFrameLen(total_tgt, total_src,
                                                                         bytes_per_led) |-> 0],
                                                    cfg.input_position, total_tgt,
                                                    bytes_per_led)),
                              frame |-> frame_index, ok |-> ok])
         /\ pc' = AfterSend(ok)
    /\ sendsThisTick' = sendsThisTick + 1
    /\ seekAge' = IF seek_target # None THEN Bump(seekAge) ELSE seekAge
    /\ pauseAge' = IF paused_flag /\ ~last_paused THEN Bump(pauseAge) ELSE pauseAge
    /\ stopAge' = IF ~running THEN Bump(stopAge) ELSE stopAge
    /\ UNCHANGED <<pipe, immutableVars, loadVars, start_frame, frame_index, timeVars,
                   last_paused, ema_acc, SENT_BLANK_ON_PAUSE, sharedVars, listenerVars,
                   signalled, localVars, blanksThisPause, stopWhileRunning>>

\* Lines 535-540: the moving average of the processing time, alpha = 0.1.
LatencyEma(first, ema, d) == IF first THEN d ELSE (ema * 9 + d) \div 10

\* d is the time that passed since processing_start_time (line 347).
EngineLatency ==
    /\ pc = "latency"
    /\ \E d \in ProcDurations :
         /\ processing_duration' = d
         /\ sinceAnchor' = sinceAnchor + d
         /\ processing_latency_ema' = LatencyEma(first_processing_measurement,
                                                 processing_latency_ema, d)
    /\ first_processing_measurement' = FALSE
    /\ pc' = "beat_check"
    /\ UNCHANGED <<pipe, immutableVars, loadVars, start_frame, frame_index, elapsed_base,
                   last_paused, ema_acc, SENT_BLANK_ON_PAUSE, sharedVars, listenerVars,
                   signalled, sleep_duration, blanksLeft, lastSend, sendsThisTick,
                   blanksThisPause, ageVars, stopWhileRunning>>

\* Faulty variant: a frame is dropped at the end of every tick.
AdvanceFrameSkipping(fi) == fi + 2

\* Line 552: frame_index += 1.
AdvanceFrame(fi) == fi + 1

\* Line 548: beat_shared.lock() and is_some; line 552 when there is nothing to clear.
EngineBeatCheck ==
    /\ pc = "beat_check"
    /\ lockHeld # "beat"
    /\ IF beat_shared # None
       THEN /\ pc' = "beat_clear"
            /\ UNCHANGED frame_index
       ELSE /\ pc' = "loop"
            /\ frame_index' = AdvanceFrame(frame_index)
    /\ UNCHANGED <<pipe, immutableVars, loadVars, start_frame, timeVars, last_paused, ema_acc,
                   SENT_BLANK_ON_PAUSE, sharedVars, listenerVars, signalled, localVars,
                   lastSend, sendsThisTick, blanksThisPause, ageVars, stopWhileRunning>>

\* Lines 549-552: the second lock, the heartbeat dropped, the index advanced.
EngineBeatClear ==
    /\ pc = "beat_clear"
    /\ lockHeld # "beat"
    /\ beat_shared' = None
    /\ frame_index' = AdvanceFrame(frame_index)
    /\ pc' = "loop"
    /\ UNCHANGED <<pipe, immutableVars, loadVars, start_frame, timeVars, last_paused, ema_acc,
                   SENT_BLANK_ON_PAUSE, seek_target, paused_flag, running,
                   request_blank_on_exit, listenerVars, signalled, localVars, lastSend,
                   sendsThisTick, blanksThisPause, ageVars, stopWhileRunning>>

\* Line 556: blanks are due when STOP was read or running is cleared.
EngineExit ==
    /\ pc = "exit"
    /\ IF request_blank_on_exit \/ ~running
       THEN /\ pc' = "blank"
            /\ blanksLeft' = ExitBlankCount
       ELSE /\ pc' = "done"
            /\ UNCHANGED blanksLeft
    /\ UNCHANGED <<pipe, immutableVars, loadVars, start_frame, frame_index, timeVars,
                   last_paused, ema_acc, SENT_BLANK_ON_PAUSE, sharedVars, listenerVars,
                   signalled, sleep_duration, processing_duration, lastSend,
                   sendsThisTick, blanksThisPause, ageVars, stopWhileRunning>>

\* Lines 557-564: one of the three blank sends.
EngineBlank ==
    /\ pc = "blank"
    /\ \E ok \in BOOLEAN :
         lastSend' = Some([kind |-> "exit_blank", len |-> Len(Zeroes(total_tgt, bytes_per_led)),
                           frame |-> frame_index, ok |-> ok])
    /\ blanksLeft' = blanksLeft - 1
    /\ pc' = IF blanksLeft - 1 = 0 THEN "done" ELSE "blank"
    /\ UNCHANGED <<pipe, immutableVars, loadVars, start_frame, frame_index, timeVars,
                   last_paused, ema_acc, SENT_BLANK_ON_PAUSE, sharedVars, listenerVars,
                   signalled, sleep_duration, processing_duration, sendsThisTick,
                   blanksThisPause, ageVars, stopWhileRunning>>

EngineNext ==
    \/ EngineLoopCheck \/ EngineSeek \/ EnginePausePoll \/ EnginePausedTick
    \/ EnginePace \/ EngineWake \/ EngineProcess \/ EngineSend \/ EngineLatency
    \/ EngineBeatCheck \/ EngineBeatClear \/ EngineExit \/ EngineBlank

ListenerNext == ListenerTop \/ ListenerReadLine \/ ListenerStore

Next ==
    \/ Signal
    \/ ReadHeader \/ ReadRecord \/ FinishLoad
    \/ ListenerNext
    \/ EngineNext

Spec == Init /\ [][Next]_vars

(***************************************************************************)
(* The same program under the scheduling the code relies on: the main      *)
(* thread keeps running (its sleeps return, its lock() calls return once   *)
(* the mutex is free), and the listener, once it holds a mutex, does its   *)
(* one assignment and drops the guard.  Nothing is assumed about input     *)
(* arriving on stdin or about signals.                                     *)
(***************************************************************************)
MainNext == ReadHeader \/ ReadRecord \/ FinishLoad \/ EngineNext

FairSpec == Spec /\ WF_vars(MainNext) /\ WF_vars(ListenerStore)

(***************************************************************************)
(* Pure functions of the frame pipeline (rotate_led_frame is defined with  *)
(* the engine's send).                                                     *)
(***************************************************************************)
(***************************************************************************)
(* f32 values are kept in thousandths (255.0 is 255000), products and      *)
(* quotients are cut to the thousandth; u8 values are plain integers.      *)
(***************************************************************************)
Milli == 1000
ToMilli(byte) == byte * Milli
MulM(a, b) == (a * b) \div Milli
Clamp(v, lo, hi) == IF v < lo THEN lo ELSE IF v > hi THEN hi ELSE v

\* f32::round: to the nearest whole number, halves away from zero.
RoundM(x) == IF x >= 0 THEN ((x + 500) \div Milli) * Milli
             ELSE -(((-x + 500) \div Milli) * Milli)

\* Faulty variant: the cast wraps around instead of saturating.
AsU8Wrapping(x) == IF x <= 0 THEN 0 ELSE (x \div Milli) % 256

\* "x as u8": the fraction is dropped and the value saturates at 0 and 255.
AsU8(x) == IF x <= 0 THEN 0
           ELSE IF x >= 255 * Milli THEN 255 ELSE x \div Milli

\* 0.2126 r + 0.7152 g + 0.0722 b (lines 362 and 461).
Luminance(r, g, b) == (2126 * (r \div 10) + 7152 * (g \div 10) + 722 * (b \div 10)) \div Milli

\* Lines 453-455: the floors of the three channels.
ChannelFloors(min_b, boost) == <<MulM(min_b, boost[1]), MulM(min_b, boost[2]), MulM(min_b, boost[3])>>

\* Line 457: a rounded value above zero and below the floor is raised to it.
Raise(v, floor) == IF v > 0 /\ v < floor THEN floor ELSE v

\* Lines 449-466: the rounded accumulator values of one zone after the
\* minimum-brightness floor; acc and the result are <<r, g, b>>, boost is
\* <<red_boost, green_boost, blue_boost>>.
FloorStage(acc, min_b, boost) ==
    LET fl == ChannelFloors(min_b, boost)
        r_out == Raise(RoundM(acc[1]), fl[1])
        g_out == Raise(RoundM(acc[2]), fl[2])
        b_out == Raise(RoundM(acc[3]), fl[3])
        lum == Luminance(r_out, g_out, b_out)
    IN IF lum < min_b \div 2 THEN <<0, 0, 0>> ELSE <<r_out, g_out, b_out>>

\* Line 468: the three values cast to bytes.
ZoneBytes(v) == <<AsU8(v[1]), AsU8(v[2]), AsU8(v[3])>>

\* remap_order (lines 23-31).
remap_order(r, g, b, order) ==
    CASE order = "GRB" -> <<g, r, b>>
      [] order = "BRG" -> <<b, r, g>>
      [] order = "BGR" -> <<b, g, r>>
      [] order = "GBR" -> <<g, b, r>>
      [] OTHER -> <<r, g, b>>

\* Lines 355-367: the mean luminance of the raw frame, one sample per LED.
RECURSIVE SumLum(_, _, _)
SumLum(raw, bpl, idx) ==
    IF idx + 2 < Len(raw)
    THEN LET rest == SumLum(raw, bpl, idx + bpl)
         IN [sum |-> rest.sum + Luminance(ToMilli(raw[idx + 1]), ToMilli(raw[idx + 2]),
                                          ToMilli(raw[idx + 3])),
             count |-> rest.count + 1]
    ELSE [sum |-> 0, count |-> 0]

AvgLum(raw, bpl) ==
    LET sl == SumLum(raw, bpl, 0)
    IN IF sl.count > 0 THEN sl.sum \div sl.count ELSE 0

\* Lines 368-369: the scene-adaptive gamma and its inverse.
GammaAdj(gamma_base, avg_lum) ==
    Clamp(MulM(gamma_base, Milli - MulM((avg_lum * Milli) \div (255 * Milli), 600)),
          Milli, 3 * Milli)
InvGamma(gamma_adj) == (Milli * Milli) \div gamma_adj

\* f32::powf for the exponents 1, 2 and 1/2 (other exponents are not
\* evaluated by the inputs of this model).  A negative base with the
\* exponent 1/2 gives NaN, which clamp_f turns into its lower bound 0.
Sqrt(n) == CHOOSE r \in 0..3000 : r * r <= n /\ n < (r + 1) * (r + 1)
Powf(x, ex) ==
    CASE ex = Milli -> x
      [] ex = 2 * Milli -> MulM(x, x)
      [] ex = Milli \div 2 -> IF x < 0 THEN 0 ELSE Sqrt(x * Milli)

\* Line 218: the smoothing time constant in milliseconds.
SmoothTau(smooth_ms) == Clamp(smooth_ms, 1, 5000)

\* Lines 371-378: the time step of the frame in microseconds.
FrameDtUs(fi, tss, r) ==
    LET per_frame == (UsPerSec \div r.n) * r.d + ((UsPerSec % r.n) * r.d) \div r.n
    IN IF fi = 0 THEN per_frame
       ELSE LET dt == tss[fi + 1] - tss[fi]
            IN IF dt <= 0 THEN per_frame ELSE dt

\* exp(-x) to the thousandth: 0 from x = 8 on (and exactly 0 in f32 from
\* x = 18 on, where 1 - exp(-x) is 1.0).
ExpNeg(x) ==
    LET whole == x \div Milli
        fr == x % Milli
        e == CASE whole = 0 -> 1000 [] whole = 1 -> 368 [] whole = 2 -> 135
               [] whole = 3 -> 50 [] whole = 4 -> 18 [] whole = 5 -> 7
               [] whole = 6 -> 2 [] whole = 7 -> 1 [] OTHER -> 0
        tail == Milli - fr + (fr * fr) \div 2000 - (fr * fr * fr) \div 6000000
    IN MulM(e, tail)

\* Line 379: k = 1 - exp(-frame_dt_s / smooth_tau).
BlendWeight(dt_us, tau_ms) == Milli - ExpNeg(dt_us \div tau_ms)

\* Lines 403-406: the brightness factor of the frame.
BrightnessFactor(brightness_target, avg_lum) ==
    IF avg_lum > Milli
    THEN Clamp(MulM((Max(brightness_target, Milli) * Milli) \div avg_lum, 700) + 300, 50, 2500)
    ELSE Milli

\* Lines 417-442: the value a zone is blended towards, from its raw bytes.
ZoneTarget(r_u, g_u, b_u, conf, inv_gamma, brightness_factor) ==
    LET r_n == Clamp((ToMilli(r_u) * Milli) \div (255 * Milli), 0, Milli)
        g_n == Clamp((ToMilli(g_u) * Milli) \div (255 * Milli), 0, Milli)
        b_n == Clamp((ToMilli(b_u) * Milli) \div (255 * Milli), 0, Milli)
        r_lin == Powf(r_n, conf.gamma_red)
        g_lin == Powf(g_n, conf.gamma_green)
        b_lin == Powf(b_n, conf.gamma_blue)
        s_user == Clamp(conf.saturation, 0, 5 * Milli)
        avg_intensity == (r_lin + g_lin + b_lin) \div 3
        r_sat == avg_intensity + MulM(r_lin - avg_intensity, s_user)
        g_sat == avg_intensity + MulM(g_lin - avg_intensity, s_user)
        b_sat == avg_intensity + MulM(b_lin - avg_intensity, s_user)
        r_g == Clamp(Powf(r_sat, inv_gamma), 0, Milli)
        g_g == Clamp(Powf(g_sat, inv_gamma), 0, Milli)
        b_g == Clamp(Powf(b_sat, inv_gamma), 0, Milli)
        adj == Clamp(brightness_factor, 300, 1800)
    IN <<MulM(r_g, adj) * 255, MulM(g_g, adj) * 255, MulM(b_g, adj) * 255>>

\* Lines 445-447 and 478: acc * (1 - k) + value * k.
Blend(a, v, k) == MulM(a, Milli - k) + MulM(v, k)

\* Lines 381-393: the accumulator a frame starts from.
InitAcc(acc, raw, S, T, bpl) ==
    IF acc # None THEN Unwrap(acc)
    ELSE [j \in 1..(T * bpl) |->
            ToMilli(raw[SrcIdx((j - 1) \div bpl, S, T) * bpl + ((j - 1) % bpl) + 1])]

\* Lines 349-481: one frame through the pipeline; the new accumulator and
\* out_frame.  conf holds the environment's settings in thousandths.
ProcessFrame(raw, acc, fi, tss, r, S, T, bpl, conf) ==
    LET avg_lum == AvgLum(raw, bpl)
        inv_gamma == InvGamma(GammaAdj(conf.gamma_base, avg_lum))
        k == BlendWeight(FrameDtUs(fi, tss, r), SmoothTau(conf.smooth_ms))
        acc0 == InitAcc(acc, raw, S, T, bpl)
        bf == BrightnessFactor(conf.brightness_target, avg_lum)
        Sb(t) == SrcIdx(t, S, T) * bpl
        Tgt(t) == ZoneTarget(raw[Sb(t) + 1], raw[Sb(t) + 2], raw[Sb(t) + 3], conf, inv_gamma, bf)
        acc1 == [j \in 1..(T * bpl) |->
                    LET t == (j - 1) \div bpl
                        b == (j - 1) % bpl
                    IN IF b < 3 THEN Blend(acc0[j], Tgt(t)[b + 1], k)
                       ELSE Blend(acc0[j], ToMilli(raw[Sb(t) + 4]), k)]
        Bytes(t) == LET v == ZoneBytes(FloorStage(<<acc1[t * bpl + 1], acc1[t * bpl + 2],
                                                    acc1[t * bpl + 3]>>,
                                                  Max(conf.min_led_brightness, 0), conf.boost))
                    IN remap_order(v[1], v[2], v[3], conf.led_order)
        out == [j \in 1..(T * bpl) |->
                    LET t == (j - 1) \div bpl
                        b == (j - 1) % bpl
                    IN IF b < 3 THEN Bytes(t)[b + 1]
                       ELSE AsU8(Clamp(RoundM(acc1[j]), 0, 255 * Milli))]
    IN [acc |-> Some(acc1), out_frame |-> out]

(***************************************************************************)
(* PipeSpec: each run picks one pure function and its inputs and applies   *)
(* it; the program's own variables stay in their initial state.            *)
(***************************************************************************)
programVars == <<immutableVars, pc, loadVars, start_frame, frame_index, timeVars,
                 last_paused, ema_acc, SENT_BLANK_ON_PAUSE, sharedVars, listenerVars,
                 signalled, localVars, lastSend, sendsThisTick, blanksThisPause,
                 ageVars, stopWhileRunning>>

\* Frames of n bytes: byte j is (m * j + c) % 256.
PatternFrame(m, c, n) == [j \in 1..n |-> (m * j + c) % 256]
FramePatterns == {<<1, 0>>, <<7, 3>>, <<64, 0>>, <<0, 0>>}

ResampleInputs ==
    { [op |-> "resample", S |-> S, T |-> T, stage |-> 0, out |-> << >>] :
        S \in 1..MaxLeds, T \in 1..(2 * MaxLeds) }

RotateInputs ==
    { [op |-> "rotate", frame |-> PatternFrame(pt[1], pt[2], io[1] * bpl), T |-> io[1],
       N |-> io[2], bpl |-> bpl, stage |-> 0, out |-> << >>] :
        pt \in FramePatterns, bpl \in {3, 4},
        io \in { <<T, N>> \in (1..(MaxLeds + 1)) \X (0..(MaxLeds + 1)) : N <= T } }

\* Smoothed channel values, base floors and boosts (thousandths).  The
\* default boosts are 3.0, 1.0, 4.0 and the default floor is 0.
AccValues == {0, 400, 1000, 2600, 40000, 300000}
FloorValues == {0, 500, 2000, 6000, 60000}
BoostValues == {<<3000, 1000, 4000>>, <<1000, 1000, 1000>>, <<500, 1500, 0>>}

FloorInputs ==
    { [op |-> "floor", acc |-> acc, min_b |-> mb, boost |-> bo, stage |-> 0, out |-> << >>] :
        acc \in AccValues \X AccValues \X AccValues, mb \in FloorValues, bo \in BoostValues }

\* The settings that leave every stage neutral: gamma 1 (base and per
\* channel), saturation 1, the smallest smoothing time constant, floor 0,
\* rotation 0, wiring order RGB.
NeutralConf(brightness_target) ==
    [gamma_base |-> 1000, gamma_red |-> 1000, gamma_green |-> 1000, gamma_blue |-> 1000,
     saturation |-> 1000, smooth_ms |-> 0, brightness_target |-> brightness_target,
     min_led_brightness |-> 0, boost |-> <<3000, 1000, 4000>>, led_order |-> "RGB",
     input_position |-> 0]

\* The default 60, the mean luminances of the two frames below (118.29 and
\* 127.5), and the largest luminance there is.
BrightnessTargets == {60000, 118294, 127500, 255000}

\* The header's rate, or the rate derived from the first two timestamps.
PipelineRates == {[n |-> 24, d |-> 1], [n |-> UsPerSec, d |-> 41666]}

\* Two RGB zones, frames at 0 and 41666 microseconds, as many targets as sources.
TwoZoneFrames == << <<255, 0, 0, 0, 255, 0>>, <<0, 0, 255, 255, 255, 0>> >>
PipelineInputs ==
    { [op |-> "pipeline", frames |-> TwoZoneFrames, tss |-> <<0, 41666>>,
       fps |-> r, S |-> 2, T |-> 2, bpl |-> 3, conf |-> NeutralConf(bt),
       stage |-> 0, acc |-> None, processed |-> << >>, out |-> << >>] :
        bt \in BrightnessTargets, r \in PipelineRates }

\* The same two zones as RGBW, resampled to T targets and rotated by
\* AMBILIGHT_INPUT_POSITION.
FourByteFrames == << <<255, 0, 0, 10, 0, 255, 0, 20>>, <<0, 0, 255, 30, 255, 255, 0, 40>> >>
InputPositions == {0, 1, 3, 5}
RotatedPipelineInputs ==
    { [op |-> "pipeline", frames |-> fr, tss |-> <<0, 41666>>,
       fps |-> [n |-> 24, d |-> 1], S |-> 2, T |-> T, bpl |-> Len(fr[1]) \div 2,
       conf |-> [NeutralConf(60000) EXCEPT !.input_position = ip],
       stage |-> 0, acc |-> None, processed |-> << >>, out |-> << >>] :
        fr \in {TwoZoneFrames, FourByteFrames}, T \in 2..(MaxLeds + 1), ip \in InputPositions }

\* AMBILIGHT_ORDER: the six wiring orders, and the cast bytes of one zone.
WiringOrders == {"RGB", "RBG", "GRB", "GBR", "BRG", "BGR"}
ZoneValues == {<<10, 20, 30>>, <<255, 0, 128>>, <<7, 7, 9>>}
RemapInputs ==
    { [op |-> "remap", rgb |-> v, order |-> o, stage |-> 0, out |-> << >>] :
        v \in ZoneValues, o \in WiringOrders }

\* Header rates (0, negative and 301 are invalid) and the timestamps loaded.
HeaderRates == {-1, 0, 24, 300, 301}
LoadedTimestamps == {<<0>>, <<0, 0>>, <<0, 1000>>, <<0, 3333>>, <<0, 3334>>, <<0, 41666>>,
                     <<41666, 0>>, <<0, 1000000, 1200000>>}
FpsInputs ==
    { [op |-> "fps", hfps |-> h, tss |-> tss, stage |-> 0, out |-> << >>] :
        h \in HeaderRates, tss \in LoadedTimestamps }

PipeInputs ==
    ResampleInputs \cup RotateInputs \cup FloorInputs \cup PipelineInputs \cup RemapInputs
        \cup FpsInputs \cup RotatedPipelineInputs

PipeInit ==
    /\ file = GoodFile /\ cfg = DefaultConfig
    /\ EngineInit
    /\ pipe \in PipeInputs

\* Lines 409-410: the source index of every target index.
PipeResample ==
    /\ pipe.op = "resample" /\ pipe.stage = 0
    /\ pipe' = [pipe EXCEPT !.stage = 1,
                            !.out = [j \in 1..pipe.T |-> SrcIdx(j - 1, pipe.S, pipe.T)]]
    /\ UNCHANGED programVars

\* rotate_led_frame by N.
PipeRotate ==
    /\ pipe.op = "rotate" /\ pipe.stage = 0
    /\ pipe' = [pipe EXCEPT !.stage = 1,
                            !.out = rotate_led_frame(pipe.frame, pipe.N, pipe.T, pipe.bpl)]
    /\ UNCHANGED programVars

\* rotate_led_frame of the result by T - N.
PipeRotateBack ==
    /\ pipe.op = "rotate" /\ pipe.stage = 1
    /\ pipe' = [pipe EXCEPT !.stage = 2,
                            !.out = rotate_led_frame(pipe.out, pipe.T - pipe.N, pipe.T, pipe.bpl)]
    /\ UNCHANGED programVars

\* Lines 449-468: floor and cast of one zone.
PipeFloor ==
    /\ pipe.op = "floor" /\ pipe.stage = 0
    /\ pipe' = [pipe EXCEPT !.stage = 1,
                            !.out = ZoneBytes(FloorStage(pipe.acc, pipe.min_b, pipe.boost))]
    /\ UNCHANGED programVars

\* Lines 349-531: the next frame is processed and handed to socket.send.
PipeProcess ==
    /\ pipe.op = "pipeline" /\ pipe.stage < Len(pipe.frames)
    /\ LET res == ProcessFrame(pipe.frames[pipe.stage + 1], pipe.acc, pipe.stage, pipe.tss,
                               pipe.fps, pipe.S, pipe.T, pipe.bpl, pipe.conf)
       IN pipe' = [pipe EXCEPT !.stage = pipe.stage + 1,
                               !.acc = res.acc,
                               !.processed = res.out_frame,
                               !.out = SentFrame(res.out_frame, pipe.conf.input_position,
                                                 pipe.T, pipe.bpl)]
    /\ UNCHANGED programVars

\* Lines 468-472: the three bytes of a zone in the order they are written to out_frame.
PipeRemap ==
    /\ pipe.op = "remap" /\ pipe.stage = 0
    /\ pipe' = [pipe EXCEPT !.stage = 1,
                            !.out = remap_order(pipe.rgb[1], pipe.rgb[2], pipe.rgb[3],
                                                pipe.order)]
    /\ UNCHANGED programVars

\* Lines 133-134 and 181-185: the frame rate in effect after loading.
PipeFps ==
    /\ pipe.op = "fps" /\ pipe.stage = 0
    /\ pipe' = [pipe EXCEPT !.stage = 1,
                            !.out = DerivedFps(HeaderFps(TRUE, pipe.hfps), pipe.tss)]
    /\ UNCHANGED programVars

PipeNext ==
    \/ PipeResample \/ PipeRotate \/ PipeRotateBack \/ PipeFloor \/ PipeProcess
    \/ PipeRemap \/ PipeFps

PipeSpec == PipeInit /\ [][PipeNext]_vars

(***************************************************************************)
(* Vocabulary of the properties.                                           *)
(***************************************************************************)
UnknownMagic(f) == f.magic \notin {"AMb2", "AMBI"}
HeaderTruncated(f) == f.len < FileHeaderLen(f)

\* Records of the file that are present in full.
CompleteRecords(f) ==
    IF HeaderTruncated(f) THEN 0
    ELSE Min(Len(f.ts), (f.len - FileHeaderLen(f)) \div FileRecordLen(f))

IsSend(kind) == lastSend # None /\ Unwrap(lastSend).kind = kind

\* The engine is at a lock() call and cannot take its step.
LockPcs == {"seek", "pause", "beat_check", "beat_clear"}
EngineWaiting == pc \in LockPcs /\ ~ENABLED EngineNext

\* A command line as section 4.5 of the specification defines it.
IsNumber(t) == t \in NumTokens
WellFormedLine(parts) ==
    \/ Len(parts) = 2 /\ Upper(parts[1]) = "SEEK" /\ IsNumber(parts[2])
    \/ Len(parts) = 1 /\ Upper(parts[1]) \in {"PAUSE", "RESUME", "STOP"}
    \/ Len(parts) = 2 /\ Upper(parts[1]) = "BEAT" /\ IsNumber(parts[2])
    \/ Len(parts) = 3 /\ Upper(parts[1]) = "BEAT" /\ IsNumber(parts[2]) /\ IsNumber(parts[3])

\* A step of the listener thread.
ListenerStepped == lpc' # lpc \/ linesRead' # linesRead

IsBeatLine(parts) == Len(parts) >= 1 /\ Upper(parts[1]) = "BEAT"

\* What the engine plays and when: everything of the main thread but its
\* position, and the commands it polls.
playbackVars == <<frame_index, start_frame, sinceAnchor, elapsed_base, last_paused,
                  processing_latency_ema, first_processing_measurement, ema_acc,
                  SENT_BLANK_ON_PAUSE, lastSend, sendsThisTick>>
commandVars == <<seek_target, paused_flag, running, request_blank_on_exit>>

\* The listener is about to store the command that is already in force.
RepeatsCommand ==
    /\ lpc = "store"
    /\ LET op == Unwrap(pendingOp)
       IN \/ op.kind = "seek" /\ seek_target = Some(op.s)
          \/ op.kind = "pause" /\ paused_flag
          \/ op.kind = "resume" /\ ~paused_flag

\* The first frame (0-based) whose timestamp is at least limit, or the
\* number of frames when there is none.
FirstFrameNotBefore(tss, limit) ==
    IF \E i \in 1..Len(tss) : tss[i] >= limit
    THEN (CHOOSE i \in 1..Len(tss) :
             tss[i] >= limit /\ \A j \in 1..(i - 1) : tss[j] < limit) - 1
    ELSE Len(tss)

\* The positions of a tick that plays a frame.
PlayingPcs == {"pace", "sleeping", "process", "send", "latency", "beat_check", "beat_clear"}

\* The channel (1 red, 2 green, 3 blue) that the k-th letter of a wiring
\* order names.
OrderChannel(order, k) ==
    LET letters == CASE order = "RGB" -> <<1, 2, 3>> [] order = "RBG" -> <<1, 3, 2>>
                     [] order = "GRB" -> <<2, 1, 3>> [] order = "GBR" -> <<2, 3, 1>>
                     [] order = "BRG" -> <<3, 1, 2>> [] order = "BGR" -> <<3, 2, 1>>
    IN letters[k]

\* The frame a run starts at, by the rule of section 4.4: the first frame
\* at or after (start offset + time since the reference epoch + sync lead).
EffectiveStartSeconds ==
    cfg.start + cfg.sync_lead
        + (IF cfg.ref_epoch # None THEN Max(0, cfg.now_epoch - Unwrap(cfg.ref_epoch)) ELSE 0)
FirstQualifying == FirstFrameNotBefore(timestamps_us, EffectiveStartSeconds * UsPerSec)

\* A rate n/d frames per second within (0, 300].
RateInRange(r) == r.n > 0 /\ r.d > 0 /\ r.n <= 300 * r.d

\* The delta between the first two timestamps, when there are two.
FirstDelta(tss) == IF tss[2] >= tss[1] THEN tss[2] - tss[1] ELSE tss[1] - tss[2]

\* Shutdown was requested: STOP was read or a signal cleared running.
ShutdownRequested == ~running \/ request_blank_on_exit

\* Position and clock at the start of playback.
ScratchState == [frame_index |-> 0, start_frame |-> 0, sinceAnchor |-> 0, elapsed_base |-> 0]

(***************************************************************************)
(* C1. A SEEK past the last timestamp puts the frame index at end of       *)
(* stream and playback then ends normally: the engine never crashes on a   *)
(* frame access at or beyond the end of the frame set.                     *)
(***************************************************************************)
C1_SeekPastEndEndsNormally ==
    (socket = "open" /\ frame_index >= Len(frames)) => pc # "panicked"

(***************************************************************************)
(* C2. When STOP was read while the engine was in its loop, the process    *)
(* does not exit before it has tried to send an all-zero datagram of       *)
(* total_tgt * bytes_per_led bytes.                                        *)
(***************************************************************************)
C2_StopAlwaysBlanks ==
    (pc \in ExitedPcs /\ stopWhileRunning) =>
        (IsSend("exit_blank") /\ Unwrap(lastSend).len = total_tgt * bytes_per_led)

(***************************************************************************)
(* C3. Every pause the engine has entered, the second and later ones       *)
(* included, has had exactly one blank frame sent once its first paused    *)
(* tick is over.                                                           *)
(***************************************************************************)
C3_OneBlankPerPause ==
    (last_paused /\ pc # "paused") => blanksThisPause = 1

(***************************************************************************)
(* C4. With an unknown magic or a truncated header the run stops at        *)
(* startup: no frame is loaded, no socket is made and nothing is ever      *)
(* sent.                                                                   *)
(***************************************************************************)
C4_BadHeaderSendsNothing ==
    (UnknownMagic(file) \/ HeaderTruncated(file)) =>
        /\ pc \in {"start", "failed", "panicked"}
        /\ frames = << >> /\ timestamps_us = << >>
        /\ socket = "none"
        /\ lastSend = None

C4_Witness == pc = "failed" /\ UnknownMagic(file) /\ ~HeaderTruncated(file)

(***************************************************************************)
(* C5. A file with the legacy magic or with the multi-edge magic, and a    *)
(* complete header, is not rejected, and once its header is read the       *)
(* source zone count is the declared one (the single count, or the sum of  *)
(* the four edge counts).                                                  *)
(***************************************************************************)
C5_BothSchemasLoad ==
    (~UnknownMagic(file) /\ ~HeaderTruncated(file)) =>
        /\ pc # "failed"
        /\ (pc # "start" => total_src = FileZones(file))

(***************************************************************************)
(* C6. The loaded set: as many payloads as timestamps, every payload of    *)
(* the declared size, never more records than the file holds in full, and  *)
(* once loading is over exactly the file's complete records.               *)
(***************************************************************************)
C6_LoadedSetWellFormed ==
    /\ Len(frames) = Len(timestamps_us)
    /\ \A i \in 1..Len(frames) : Len(frames[i]) = FileZones(file) * FileBpl(file)
    /\ Len(timestamps_us) <= CompleteRecords(file)
    /\ (pc \notin {"start", "load", "failed"} /\ ~HeaderTruncated(file)) =>
          /\ Len(frames) = CompleteRecords(file)
          /\ \A i \in 1..Len(frames) :
                timestamps_us[i] = file.ts[i] /\ frames[i] = FilePayload(file, i - 1)

\* Loading is over and a trailing partial record was left out.
C6_Witness ==
    /\ pc = "loaded"
    /\ Len(frames) = 1
    /\ file.len > FileHeaderLen(file) + FileRecordLen(file)

(***************************************************************************)
(* C7. While a SEEK is pending, while a PAUSE is set and not yet entered,  *)
(* and while the shutdown flag is set, the engine has sent at most one     *)
(* colour frame since the command was recorded.                            *)
(***************************************************************************)
C7_OneTickLatency ==
    /\ (seek_target # None => seekAge <= 1)
    /\ ((paused_flag /\ ~last_paused) => pauseAge <= 1)
    /\ (~running => stopAge <= 1)

\* One colour frame went out after the SEEK was recorded and before it was applied.
C7_Witness == seek_target # None /\ seekAge = 1 /\ IsSend("color")

C9_FailedSendChangesNothing ==
    /\ [][(pc = "send" /\ (lastSend' # lastSend \/ pc' # "send")) =>
            /\ pc' = "latency"
            /\ sendsThisTick' = 1
            /\ UNCHANGED <<frame_index, start_frame, ema_acc, elapsed_base, sinceAnchor,
                           processing_latency_ema, first_processing_measurement>>]_vars
    /\ [][(pc \in {"beat_check", "beat_clear"} /\ pc' = "loop") =>
            (sendsThisTick = 1 /\ frame_index' = frame_index + 1)]_vars

\* A tick has ended after its send failed.
C9_Witness ==
    /\ pc = "loop"
    /\ IsSend("color") /\ ~Unwrap(lastSend).ok
    /\ frame_index = Unwrap(lastSend).frame + 1

(***************************************************************************)
(* C10. A step the listener takes on a line that is not a well-formed      *)
(* command changes none of the pending seek target, the pause flag, the    *)
(* shutdown flags and the heartbeat slot, and does not end the listener.   *)
(***************************************************************************)
C10_MalformedIgnored ==
    [][(ListenerStepped /\ curLine' # None /\ ~WellFormedLine(Unwrap(curLine'))) =>
          /\ UNCHANGED <<seek_target, paused_flag, running, request_blank_on_exit,
                         beat_shared>>
          /\ lpc' # "exited"]_vars

(***************************************************************************)
(* C11. A BEAT line is inert.  Stated step by step: a step the listener    *)
(* takes on a BEAT line changes no command the engine polls and nothing of *)
(* the playback state; the heartbeat slot changes only when the listener   *)
(* overwrites it or the engine empties it; and the end of a tick does the  *)
(* same to the playback state whether a heartbeat is stored or not: a      *)
(* stored one costs one more step that changes the slot alone.             *)
(***************************************************************************)
C11_BeatInert ==
    /\ [][(ListenerStepped /\ curLine' # None /\ IsBeatLine(Unwrap(curLine'))) =>
              UNCHANGED <<commandVars, playbackVars, pc>>]_vars
    /\ [][beat_shared' # beat_shared =>
              \/ lpc = "store" /\ lpc' = "top" /\ beat_shared' # None /\ pc' = pc
              \/ pc = "beat_clear" /\ beat_shared' = None]_vars
    /\ [][(pc \in {"beat_check", "beat_clear"} /\ pc' # pc) =>
              /\ UNCHANGED <<start_frame, sinceAnchor, elapsed_base, last_paused,
                             processing_latency_ema, first_processing_measurement,
                             ema_acc, SENT_BLANK_ON_PAUSE, lastSend, sendsThisTick,
                             commandVars>>
              /\ \/ pc = "beat_check" /\ beat_shared # None
                    /\ pc' = "beat_clear" /\ UNCHANGED frame_index
                 \/ (pc = "beat_clear" \/ beat_shared = None)
                    /\ pc' = "loop" /\ frame_index' = frame_index + 1]_vars

\* A heartbeat was stored, the engine emptied the slot and the tick ended.
C11_Witness ==
    /\ pc = "loop" /\ IsSend("color") /\ frame_index = Unwrap(lastSend).frame + 1
    /\ lpc = "top" /\ curLine # None /\ IsBeatLine(Unwrap(curLine))
    /\ Parse(Unwrap(curLine)).kind = "beat"
    /\ beat_shared = None

(***************************************************************************)
(* C12. Repeating SEEK x, PAUSE or RESUME changes nothing: storing the     *)
(* command that is already in force leaves the commands and the playback   *)
(* state as they are; the position and the clock a SEEK x is applied to    *)
(* do not matter for its result, so applying it again gives the same       *)
(* frame index, start frame and clock; and a poll that finds the pause     *)
(* flag as it was at the last poll changes neither position nor clock.     *)
(***************************************************************************)
C12_RepeatedCommandIsNoOp ==
    /\ [][(RepeatsCommand /\ lpc' = "top") => UNCHANGED <<commandVars, playbackVars, pc>>]_vars
    /\ [][(pc = "seek" /\ pc' = "pause" /\ seek_target # None) =>
              LET after == [frame_index |-> frame_index', start_frame |-> start_frame',
                            sinceAnchor |-> sinceAnchor', elapsed_base |-> elapsed_base']
                  again(cur) == SeekState(cur, timestamps_us, Unwrap(seek_target),
                                          cfg.sync_lead, Len(frames))
              IN /\ again(after) = after
                 /\ again(ScratchState) = after
                 /\ UNCHANGED <<paused_flag, last_paused>>]_vars
    /\ [][(pc = "pause" /\ pc' # pc /\ paused_flag = last_paused) =>
              UNCHANGED <<frame_index, start_frame, sinceAnchor, elapsed_base, last_paused,
                          paused_flag>>]_vars

\* SEEK 1 was applied (the start frame is 1), the frame was played, and
\* SEEK 1 is pending again at the engine's poll.
C12_Witness ==
    /\ file = GoodFile
    /\ pc = "seek" /\ lockHeld # "seek"
    /\ seek_target = Some(1) /\ start_frame = 1 /\ frame_index = 2
    /\ IsSend("color") /\ Unwrap(lastSend).frame = 1

(***************************************************************************)
(* C13. Every datagram handed to the socket, colour frame, pause blank or  *)
(* exit blank, is total_tgt * bytes_per_led bytes long, and a tick that    *)
(* processes a frame sends exactly once: nothing before the frame's send,  *)
(* one datagram after it.                                                  *)
(***************************************************************************)
C13_DatagramLengthAndCount ==
    /\ lastSend # None => Unwrap(lastSend).len = total_tgt * bytes_per_led
    /\ pc \in {"pace", "sleeping", "process", "send"} => sendsThisTick = 0
    /\ pc \in {"latency", "beat_check", "beat_clear"} =>
          (sendsThisTick = 1 /\ IsSend("color") /\ Unwrap(lastSend).frame = frame_index)

\* A rotated RGBW colour frame was sent; there are fewer source zones than targets.
C13_Witness ==
    /\ pc = "latency" /\ IsSend("color")
    /\ cfg.input_position % total_tgt > 0 /\ bytes_per_led = 4
    /\ total_src < total_tgt

(***************************************************************************)
(* C14. The resampler reads target t from source floor(t*S/T): with T = S  *)
(* every target reads its own index, and with T = 2S every source index is *)
(* read by exactly the two consecutive targets 2s and 2s+1.                *)
(***************************************************************************)
C14_ResampleIdentityAndDoubling ==
    (pipe # None /\ pipe.op = "resample" /\ pipe.stage = 1) =>
        /\ \A t \in 0..(pipe.T - 1) :
              /\ pipe.out[t + 1] * pipe.T <= t * pipe.S
              /\ t * pipe.S < (pipe.out[t + 1] + 1) * pipe.T
        /\ pipe.T = pipe.S => \A t \in 0..(pipe.T - 1) : pipe.out[t + 1] = t
        /\ pipe.T = 2 * pipe.S =>
              \A src \in 0..(pipe.S - 1) :
                 {t \in 0..(pipe.T - 1) : pipe.out[t + 1] = src} = {2 * src, 2 * src + 1}

C14_Witness ==
    /\ pipe # None /\ pipe.op = "resample" /\ pipe.stage = 1
    /\ pipe.S = MaxLeds /\ pipe.T = 2 * MaxLeds

(***************************************************************************)
(* C15. Rotating a frame of T LEDs by N and then by T - N gives the frame  *)
(* back byte for byte, for every N in 0..T and for 3 and 4 bytes per LED.  *)
(***************************************************************************)
C15_RotateThenComplementIsIdentity ==
    (pipe # None /\ pipe.op = "rotate" /\ pipe.stage = 2) => pipe.out = pipe.frame

\* A rotation that moved bytes has been undone.
C15_Witness ==
    /\ pipe # None /\ pipe.op = "rotate" /\ pipe.stage = 2
    /\ pipe.N > 0 /\ pipe.N < pipe.T /\ pipe.bpl = 4
    /\ rotate_led_frame(pipe.frame, pipe.N, pipe.T, pipe.bpl) # pipe.frame

(***************************************************************************)
(* C16. In the bytes of a zone either all three colour bytes are zero or   *)
(* every nonzero colour byte is at least its channel's floor, the base     *)
(* floor times the channel's boost, whatever the floor and the boosts.     *)
(***************************************************************************)
C16_NonzeroBytesReachFloor ==
    (pipe # None /\ pipe.op = "floor" /\ pipe.stage = 1) =>
        \/ pipe.out = <<0, 0, 0>>
        \/ \A c \in 1..3 :
              pipe.out[c] # 0 =>
                  ToMilli(pipe.out[c]) >= ChannelFloors(pipe.min_b, pipe.boost)[c]

\* The run of the identity scenario: two RGB zones, the two frames, as many
\* targets as sources, every setting neutral.
IdentityScenario ==
    /\ pipe # None /\ pipe.op = "pipeline"
    /\ pipe.conf \in {NeutralConf(bt) : bt \in BrightnessTargets}
    /\ pipe.frames = TwoZoneFrames /\ pipe.tss = <<0, 41666>>
    /\ pipe.S = 2 /\ pipe.T = 2 /\ pipe.bpl = 3

(***************************************************************************)
(* C17 as stated: in the identity scenario (gamma 1, saturation 1, the     *)
(* smallest smoothing time constant, floor 0, rotation 0, target = source) *)
(* every frame handed to the socket is the raw frame, whatever the         *)
(* brightness target.                                                      *)
(***************************************************************************)
C17_IdentityPipeline ==
    (IdentityScenario /\ pipe.stage >= 1) => pipe.out = pipe.frames[pipe.stage]

(***************************************************************************)
(* C17 as amended: in the identity scenario with a brightness target of at *)
(* least 127.5, the larger mean luminance of the two frames, every frame   *)
(* handed to the socket is the raw frame.                                  *)
(***************************************************************************)
C17_IdentityWithHighBrightnessTarget ==
    (IdentityScenario /\ pipe.conf.brightness_target >= 127500 /\ pipe.stage >= 1) =>
        pipe.out = pipe.frames[pipe.stage]

\* Both frames went through with the brightness factor above 1.
C17_Witness ==
    /\ IdentityScenario /\ pipe.conf.brightness_target = 127500 /\ pipe.stage = 2
    /\ pipe.out = TwoZoneFrames[2]
    /\ BrightnessFactor(127500, AvgLum(TwoZoneFrames[1], 3)) > Milli

(***************************************************************************)
(* C18. The poll of a pending seek target s puts the frame index and the   *)
(* start frame at the first frame whose timestamp is at least              *)
(* (s + sync_lead) * 1e6 microseconds (the number of frames when there is  *)
(* none), sets the elapsed-time base and the time since the anchor to      *)
(* zero and empties the target; a poll that finds no target changes none   *)
(* of them, and the target is emptied by that poll alone.                  *)
(***************************************************************************)
C18_SeekApplied ==
    /\ [][(pc = "seek" /\ pc' = "pause") =>
              IF seek_target # None
              THEN LET f == FirstFrameNotBefore(timestamps_us,
                                (Unwrap(seek_target) + cfg.sync_lead) * UsPerSec)
                   IN /\ frame_index' = f /\ start_frame' = f
                      /\ elapsed_base' = 0 /\ sinceAnchor' = 0
                      /\ seek_target' = None
              ELSE UNCHANGED <<frame_index, start_frame, elapsed_base, sinceAnchor,
                               seek_target>>]_vars
    /\ [][(seek_target # None /\ seek_target' = None) => (pc = "seek" /\ pc' = "pause")]_vars

\* Frame 1 had been sent when a seek took the engine back to frame 1.
C18_Witness ==
    /\ file = GoodFile /\ pc = "pause" /\ seek_target = None
    /\ frame_index = 1 /\ start_frame = 1 /\ sinceAnchor = 0 /\ elapsed_base = 0
    /\ IsSend("color") /\ Unwrap(lastSend).frame = 1

(***************************************************************************)
(* C19. The first frame processed after a seek (the frame index is the     *)
(* start frame) starts the smoothing accumulator afresh: the accumulator   *)
(* holds that frame and nothing of the frames processed before.            *)
(***************************************************************************)
C19_SeekResetsSmoothing ==
    (pc = "send" /\ frame_index = start_frame) =>
        ema_acc = Some([init |-> frame_index, blended |-> <<frame_index>>])

(***************************************************************************)
(* C20. A tick in which the engine found the pause flag set plays no       *)
(* frame: it is at none of the positions of pacing, processing and         *)
(* sending, it leaves the frame index and the accumulator alone, and the   *)
(* only datagram it sends is the blank.                                    *)
(***************************************************************************)
C20_PausedTickPlaysNothing ==
    /\ [][last_paused' => pc' \notin PlayingPcs]_vars
    /\ [][(pc = "paused" /\ pc' # pc) =>
              /\ pc' = "loop"
              /\ UNCHANGED <<frame_index, ema_acc>>
              /\ \/ UNCHANGED lastSend
                 \/ /\ Unwrap(lastSend').kind = "pause_blank"
                    /\ Unwrap(lastSend').len = Len(Zeroes(total_tgt, bytes_per_led))]_vars

\* Frames were played, then a paused tick sent the blank and ended.
C20_Witness ==
    /\ pc = "loop" /\ last_paused /\ paused_flag
    /\ IsSend("pause_blank") /\ frame_index > 0 /\ frame_index < Len(frames)

(***************************************************************************)
(* C21 as stated: elapsed playback time stands still while the engine is   *)
(* paused.  Entering the pause freezes the elapsed time of that moment in  *)
(* the base; no step taken while the engine stays paused changes the base; *)
(* and the elapsed time right after the resume edge (base plus time since  *)
(* the anchor) is the frozen base, however long the idle sleeps lasted.    *)
(***************************************************************************)
C21_ElapsedFrozenWhilePaused ==
    /\ [][(pc = "pause" /\ pc' # pc /\ paused_flag /\ ~last_paused) =>
              elapsed_base' = elapsed_base + sinceAnchor]_vars
    /\ [][(last_paused /\ last_paused') => elapsed_base' = elapsed_base]_vars
    /\ [][(pc = "pause" /\ pc' # pc /\ ~paused_flag /\ last_paused) =>
              elapsed_base' + sinceAnchor' = elapsed_base]_vars

(***************************************************************************)
(* C21 as amended: the same, except that a seek applied while the engine   *)
(* is paused restarts the elapsed time: it sets the frozen base to zero,   *)
(* and the elapsed time right after the resume is then zero.               *)
(***************************************************************************)
C21_ElapsedFrozenUnlessSeek ==
    /\ [][(pc = "pause" /\ pc' # pc /\ paused_flag /\ ~last_paused) =>
              elapsed_base' = elapsed_base + sinceAnchor]_vars
    /\ [][(last_paused /\ last_paused') =>
              \/ elapsed_base' = elapsed_base
              \/ pc = "seek" /\ seek_target # None /\ elapsed_base' = 0]_vars
    /\ [][(pc = "pause" /\ pc' # pc /\ ~paused_flag /\ last_paused) =>
              elapsed_base' + sinceAnchor' = elapsed_base]_vars

\* Playback has resumed after a pause that was entered with time on the clock.
C21_Witness ==
    /\ pc = "pace" /\ ~last_paused /\ IsSend("pause_blank")
    /\ elapsed_base > 0 /\ sinceAnchor = 0

(***************************************************************************)
(* C22. Once the shutdown flag is cleared while the engine is in its loop, *)
(* paused or not, the engine eventually terminates with an all-zero exit   *)
(* blank as its last datagram; and once the first exit blank is out, every *)
(* later datagram is an exit blank too.                                    *)
(***************************************************************************)
C22_ShutdownBlanksAndTerminates ==
    /\ (~running /\ pc \in LoopPcs) ~> (pc = "done" /\ IsSend("exit_blank"))
    /\ [][(IsSend("exit_blank") /\ lastSend' # lastSend) =>
              Unwrap(lastSend').kind = "exit_blank"]_vars

(***************************************************************************)
(* C23. The duration the pacing of a tick sleeps is max(0, remaining -     *)
(* compensation), where remaining is the frame's target time minus the     *)
(* elapsed playback time and compensation the processing-latency average:  *)
(* it is zero whenever the compensation is at least the remaining time.    *)
(***************************************************************************)
C23_SleepIsClampedDifference ==
    [][(pc = "pace" /\ pc' # pc) =>
          LET remaining == FrameTargetTimeUs(timestamps_us, frame_index, start_frame, fps)
                           - (elapsed_base + sinceAnchor)
          IN sleep_duration' = Max(0, remaining - processing_latency_ema)]_vars

(***************************************************************************)
(* C24. For each of the six wiring orders the k-th byte written for a zone *)
(* is the value of the channel that the k-th letter of the order names.    *)
(***************************************************************************)
C24_BytesInWiringOrder ==
    (pipe # None /\ pipe.op = "remap" /\ pipe.stage = 1) =>
        \A k \in 1..3 : pipe.out[k] = pipe.rgb[OrderChannel(pipe.order, k)]

(***************************************************************************)
(* C25. Playback starts at the first frame whose timestamp is at least     *)
(* effective_start * 1e6 microseconds, where effective_start is the start  *)
(* offset plus max(0, now - reference epoch) when a reference epoch is     *)
(* given plus the sync lead; when no frame qualifies the index is the      *)
(* number of frames, no colour frame is ever sent and the run is on the    *)
(* way to its normal end: the loop condition, the exit blanks, the return. *)
(***************************************************************************)
C25_StartFrame ==
    /\ [][(pc = "loaded" /\ pc' = "loop") =>
              (frame_index' = FirstQualifying /\ start_frame' = FirstQualifying)]_vars
    /\ []((socket = "open" /\ FirstQualifying = Len(timestamps_us)) =>
              /\ pc \in {"loop", "exit", "blank", "done"}
              /\ ~IsSend("color")
              /\ frame_index = Len(frames))

\* A run started past the last frame has ended without sending anything.
C25_Witness ==
    /\ cfg = PastEndConfig /\ pc = "done" /\ socket = "open"
    /\ frame_index = Len(frames) /\ Len(frames) = 3 /\ lastSend = None

(***************************************************************************)
(* C26. With an invalid header rate the rate in effect is 1e6 over the     *)
(* delta of the first two timestamps when that is usable (two frames, a    *)
(* delta above zero, a rate within (0, 300]) and 24 otherwise; a valid     *)
(* header rate is kept; so the rate in effect is always within (0, 300].   *)
(***************************************************************************)
C26_RateInEffect ==
    (pipe # None /\ pipe.op = "fps" /\ pipe.stage = 1) =>
        LET headerValid == pipe.hfps > 0 /\ pipe.hfps <= 300
            derived == [n |-> UsPerSec, d |-> FirstDelta(pipe.tss)]
            usable == Len(pipe.tss) >= 2 /\ FirstDelta(pipe.tss) > 0 /\ RateInRange(derived)
        IN /\ pipe.out = IF headerValid THEN [n |-> pipe.hfps, d |-> 1]
                         ELSE IF usable THEN derived
                         ELSE [n |-> DefaultFps, d |-> 1]
           /\ RateInRange(pipe.out)

(***************************************************************************)
(* C27. After the first processed frame the accumulator of every channel   *)
(* of every target zone is the resampled raw value of that frame: no blend *)
(* has been applied to it.                                                 *)
(***************************************************************************)
C27_FirstFrameNotBlended ==
    (pipe # None /\ pipe.op = "pipeline" /\ pipe.stage = 1) =>
        \A j \in 1..(pipe.T * pipe.bpl) :
            Unwrap(pipe.acc)[j] =
                ToMilli(pipe.frames[1][SrcIdx((j - 1) \div pipe.bpl, pipe.S, pipe.T) * pipe.bpl
                                       + ((j - 1) % pipe.bpl) + 1])

(***************************************************************************)
(* C28. The rotation comes last: with N the configured offset reduced      *)
(* modulo T, LED i of every colour frame handed to the socket carries the  *)
(* bytes the pipeline computed for target (i + N) mod T, for every i below *)
(* T, and the frame has T LEDs.                                            *)
(***************************************************************************)
C28_RotationAppliedLast ==
    (pipe # None /\ pipe.op = "pipeline" /\ pipe.stage >= 1) =>
        LET N == pipe.conf.input_position % pipe.T
        IN /\ N >= 0 /\ N < pipe.T
           /\ Len(pipe.out) = pipe.T * pipe.bpl
           /\ \A i \in 0..(pipe.T - 1) : \A b \in 1..pipe.bpl :
                 pipe.out[i * pipe.bpl + b] = pipe.processed[((i + N) % pipe.T) * pipe.bpl + b]

\* The second RGBW frame went out rotated by an offset that was reduced modulo T.
C28_Witness ==
    /\ pipe # None /\ pipe.op = "pipeline" /\ pipe.stage = 2
    /\ pipe.bpl = 4 /\ pipe.T = 3 /\ pipe.conf.input_position = 5
    /\ pipe.out # pipe.processed

(***************************************************************************)
(* C29. The engine gets to the end on its own: in every run in which the   *)
(* shutdown flag stays clear and the pause flag is not left set forever    *)
(* (the seeks are finitely many in every run), once playback has started   *)
(* the engine eventually reaches the end of the stream and terminates,     *)
(* whether or not the listener ever reads a line.                          *)
(***************************************************************************)
C29_EngineFinishesOnItsOwn ==
    ([]running /\ []<>(~paused_flag)) =>
        [](socket = "open" => <>(pc = "done" /\ frame_index >= Len(frames)))

(***************************************************************************)
(* C30. No colour frame goes out early: when a frame is processed and sent *)
(* the elapsed playback time (the base frozen at pauses plus the time      *)
(* since the anchor, both restarted by a seek) has reached the frame's     *)
(* target time relative to the start frame minus the processing-latency    *)
(* compensation.                                                           *)
(***************************************************************************)
C30_NeverSentEarly ==
    (pc \in {"process", "send"} /\ frame_index < Len(frames)) =>
        elapsed_base + sinceAnchor >=
            FrameTargetTimeUs(timestamps_us, frame_index, start_frame, fps)
                - processing_latency_ema

\* A frame is about to go out at the earliest time allowed, after a sleep
\* shortened by the compensation.
C30_Witness ==
    /\ pc = "send" /\ frame_index > start_frame
    /\ sleep_duration > 0 /\ processing_latency_ema > 0
    /\ elapsed_base + sinceAnchor =
           FrameTargetTimeUs(timestamps_us, frame_index, start_frame, fps)
               - processing_latency_ema

(***************************************************************************)
(* C31. Every source index the resampler reads lies inside the payload:    *)
(* for every loaded frame and every target t below the target count,       *)
(* (floor(t * S / T) + 1) * bytes_per_led is at most the payload length,   *)
(* also when the header declares no source zone at all.                    *)
(***************************************************************************)
C31_ResampleReadsInsidePayload ==
    (pc \notin {"start", "failed"} /\ total_tgt > 0) =>
        \A i \in 1..Len(frames) : \A t \in 0..(total_tgt - 1) :
            ((t * total_src) \div total_tgt + 1) * bytes_per_led <= Len(frames[i])

C33_FramesInOrder ==
    /\ [][frame_index' # frame_index =>
              \/ pc = "loaded"
              \/ pc = "seek" /\ seek_target # None
              \/ /\ pc \in {"beat_check", "beat_clear"} /\ pc' = "loop"
                 /\ frame_index' = frame_index + 1
                 /\ sendsThisTick = 1
                 /\ IsSend("color") /\ Unwrap(lastSend).frame = frame_index]_vars
    /\ [][(lastSend' # lastSend /\ Unwrap(lastSend').kind = "color") =>
              /\ pc = "send"
              /\ Unwrap(lastSend').frame = frame_index
              /\ UNCHANGED frame_index]_vars
    /\ []((pc = "send" /\ IsSend("color") /\ frame_index > start_frame) =>
              Unwrap(lastSend).frame = frame_index - 1)
    /\ [][(pc = "pace" /\ pc' # pc /\
            elapsed_base + sinceAnchor >=
                FrameTargetTimeUs(timestamps_us, frame_index, start_frame, fps)) =>
              /\ pc' = "process" /\ sleep_duration' = 0
              /\ UNCHANGED frame_index]_vars

\* After a seek to frame 1, frame 2 was behind schedule and went out
\* without a sleep, right after frame 1.
C33_Witness ==
    /\ file = GoodFile /\ pc = "latency" /\ start_frame = 1 /\ frame_index = 2
    /\ IsSend("color") /\ Unwrap(lastSend).frame = 2 /\ sleep_duration = 0
    /\ elapsed_base + sinceAnchor > FrameTargetTimeUs(timestamps_us, 2, 1, fps)

(***************************************************************************)
(* C34. When the process has ended after playback was set up, its last     *)
(* datagram is an exit blank if and only if shutdown was requested; and    *)
(* when it was not requested, the last datagram, if there was any, is the  *)
(* colour frame of the last index.                                         *)
(***************************************************************************)
C34_ExitBlanksIffShutdown ==
    (pc \in ExitedPcs /\ socket = "open") =>
        /\ IsSend("exit_blank") <=> ShutdownRequested
        /\ (~ShutdownRequested /\ lastSend # None) =>
              (IsSend("color") /\ Unwrap(lastSend).frame = Len(frames) - 1)

(***************************************************************************)
(* C35. A seek that is pending at a poll of the paused engine is applied   *)
(* by that poll: frame index and start frame go to the target, the elapsed *)
(* time to zero, the slot is emptied.  While the engine is paused it sends *)
(* no colour frame and nothing but a seek moves the position or the frozen *)
(* elapsed time.  The resume edge leaves the position alone, goes on to    *)
(* the pacing of that frame, and the elapsed time after it is the frozen   *)
(* one: zero after a seek.                                                 *)
(***************************************************************************)
C35_SeekWhilePaused ==
    /\ [][(pc = "seek" /\ pc' = "pause" /\ seek_target # None /\ last_paused) =>
              LET f == FirstFrameNotBefore(timestamps_us,
                           (Unwrap(seek_target) + cfg.sync_lead) * UsPerSec)
              IN /\ frame_index' = f /\ start_frame' = f
                 /\ elapsed_base' = 0 /\ seek_target' = None
                 /\ UNCHANGED <<last_paused, lastSend>>]_vars
    /\ [][(last_paused' /\ lastSend' # lastSend) => Unwrap(lastSend').kind # "color"]_vars
    /\ [][(last_paused /\ last_paused') =>
              \/ UNCHANGED <<frame_index, start_frame, elapsed_base>>
              \/ pc = "seek" /\ seek_target # None]_vars
    /\ [][(pc = "pause" /\ pc' # pc /\ last_paused /\ ~paused_flag) =>
              /\ pc' = "pace"
              /\ UNCHANGED <<frame_index, start_frame>>
              /\ elapsed_base' + sinceAnchor' = elapsed_base]_vars

\* Frames 0 and 1 were played, the engine paused at frame 2 and sent the
\* blank, a seek took it back to frame 1, and after the resume frame 1 is
\* about to go out with no time elapsed.
C35_Witness ==
    /\ file = GoodFile /\ pc = "send" /\ ~last_paused
    /\ frame_index = 1 /\ start_frame = 1
    /\ elapsed_base + sinceAnchor = 0
    /\ IsSend("pause_blank") /\ Unwrap(lastSend).frame = 2

====
